---- MODULE Spec2Model ----
(***************************************************************************)
(* Model of oads_download.py (EarthCARE OADS download script):             *)
(*   - download(): login per server group, per-file bounded retry loop,    *)
(*     unzip_file(), logout                                                *)
(*   - main(): input validation, request planning, catalogue queries,      *)
(*     result selection, call of download()                                *)
(*   - the pure helpers of the orbit/frame resolver and request planner    *)
(***************************************************************************)
EXTENDS Integers, Sequences, FiniteSets, TLC

(***************************************************************************)
(* Bounds of the model                                                     *)
(***************************************************************************)
\* number of rows of the dataframe handed to download()
NumFiles == 2
\* number of distinct dissemination servers the rows may name
NumServers == 2
\* longest orbit range -so 1 -eo n
MaxOrbits == 120

(***************************************************************************)
(* Program constants                                                       *)
(***************************************************************************)
MAX_DOWNLOAD_ATTEMPTS_PER_FILE == 3

Rows == 1..NumFiles
Servers == 1..NumServers

\* what os.path.exists can find at zip_file_path: nothing, a truncated
\* archive (open(..., "wb") ran but the body was not completely written),
\* or a completely written archive
ZipStates == {"absent", "partial", "full"}
\* what can be at file_path (the directory ZipFile.extractall writes to)
DirStates == {"absent", "partial", "full"}

\* outcomes of requests.get(file_download_url, stream=True) followed by
\* the streaming of the body
DownloadOutcomes == {"ok_len", "ok_nolen", "err_pre", "err_mid", "e403"}
\* outcomes of a login / logout request
LoginOutcomes == {"ok", "error"}

(***************************************************************************)
(* Values shared by the orbit/frame resolver and the request planner       *)
(***************************************************************************)
MAX_NUM_ORBITS_PER_REQUEST == 50
NUM_FRAMES == 8
FRAMES == <<"A", "B", "C", "D", "E", "F", "G", "H">>
\* largest orbit number get_validated_orbit_number accepts
MAX_ORBIT_NUMBER == 99999

\* An optional value (Python's "x | None") is a sequence of length 0 or 1
None == <<>>
Some(x) == <<x>>
IsNone(x) == x = <<>>
Val(x) == x[1]

Range(seq) == {seq[i] : i \in DOMAIN seq}

\* FRAMES.index(f), 0-based as in Python
FrameIndex(f) == (CHOOSE i \in 1..NUM_FRAMES : FRAMES[i] = f) - 1

\* the elements of a finite set of integers in ascending order
SortedSeq(S) ==
    LET rank == [x \in S |-> Cardinality({y \in S : y < x})]
    IN  [i \in 1..Cardinality(S) |-> CHOOSE x \in S : rank[x] = i - 1]

\* list(zip(a, b)): as long as the shorter list
Zip(a, b) ==
    LET n == IF Len(a) <= Len(b) THEN Len(a) ELSE Len(b)
    IN  [i \in 1..n |-> <<a[i], b[i]>>]

\* [x] * n
Repeat(x, n) == [i \in 1..n |-> x]

\* a value, or the exception that left the function
Ok(v) == [ok |-> TRUE, val |-> v, err |-> "none"]
Err(e) == [ok |-> FALSE, val |-> <<>>, err |-> e]

(***************************************************************************)
(* Orbit/frame resolver                                                    *)
(***************************************************************************)
\* get_frame_range(start_frame_id, end_frame_id)
get_frame_range_NoWrap(start_frame_id, end_frame_id) ==
    LET start_idx == FrameIndex(start_frame_id)
        end_idx   == FrameIndex(end_frame_id)
    IN  [k \in 1..(end_idx - start_idx + 1) |->
            FRAMES[((start_idx + k - 1) % NUM_FRAMES) + 1]]
get_frame_range(start_frame_id, end_frame_id) ==
    LET start_idx == FrameIndex(start_frame_id)
        end_idx0  == FrameIndex(end_frame_id)
        end_idx   == IF end_idx0 < start_idx THEN end_idx0 + NUM_FRAMES
                     ELSE end_idx0
    IN  [k \in 1..(end_idx - start_idx + 1) |->
            FRAMES[((start_idx + k - 1) % NUM_FRAMES) + 1]]

\* An orbit-and-frame name is a sequence of characters, e.g. 00010F is
\* <<"0","0","0","1","0","F">>
Digits == <<"0", "1", "2", "3", "4", "5", "6", "7", "8", "9">>
IsDigit(c) == \E i \in 1..10 : Digits[i] = c
DigitVal(c) == (CHOOSE i \in 1..10 : Digits[i] = c) - 1

RECURSIVE DigitsToInt(_)
DigitsToInt(cs) ==
    IF cs = <<>> THEN 0
    ELSE 10 * DigitsToInt(SubSeq(cs, 1, Len(cs) - 1)) + DigitVal(cs[Len(cs)])

\* int(text): decimal digits with an optional minus sign, else ValueError
ParseInt(cs) ==
    LET body == IF cs # <<>> /\ cs[1] = "-" THEN Tail(cs) ELSE cs
    IN  IF body = <<>> \/ \E i \in DOMAIN body : ~IsDigit(body[i])
        THEN Err("ValueError")
        ELSE Ok(IF cs[1] = "-" THEN 0 - DigitsToInt(body)
                ELSE DigitsToInt(body))

\* str.upper() on one character of a frame name
LowerFrames == <<"a", "b", "c", "d", "e", "f", "g", "h">>
Upper(c) ==
    IF \E i \in 1..NUM_FRAMES : LowerFrames[i] = c
    THEN FRAMES[CHOOSE i \in 1..NUM_FRAMES : LowerFrames[i] = c]
    ELSE c

\* get_validated_orbit_number(orbit_number)
get_validated_orbit_number(orbit_number) ==
    IF orbit_number < 0 \/ orbit_number > MAX_ORBIT_NUMBER
    THEN Err("InvalidInputError")
    ELSE Ok(orbit_number)

\* get_validated_frame_id(frame_id), for a one-character argument
get_validated_frame_id(frame_id) ==
    IF \E i \in 1..NUM_FRAMES : FRAMES[i] = Upper(frame_id)
    THEN Ok(Upper(frame_id))
    ELSE Err("InvalidInputError")

\* get_validated_orbit_and_frame(orbit_and_frame): <<orbit, frame>>; the
\* handler logs and re-raises whatever was raised
get_validated_orbit_and_frame(oaf) ==
    LET n == ParseInt(SubSeq(oaf, 1, Len(oaf) - 1))
    IN  IF ~n.ok THEN Err(n.err)
        ELSE IF ~get_validated_orbit_number(n.val).ok
             THEN Err("InvalidInputError")
        ELSE IF ~get_validated_frame_id(oaf[Len(oaf)]).ok
             THEN Err("InvalidInputError")
        ELSE Ok(<<n.val, get_validated_frame_id(oaf[Len(oaf)]).val>>)

\* get_validated_orbit_number_range(start_orbit_number, end_orbit_number):
\* an optional list
get_validated_orbit_number_range(start_orbit_number, end_orbit_number) ==
    CASE IsNone(start_orbit_number) /\ IsNone(end_orbit_number) -> Ok(None)
      [] IsNone(start_orbit_number) \/ IsNone(end_orbit_number) ->
            Err("InvalidInputError")
      [] Val(start_orbit_number) > Val(end_orbit_number) ->
            Err("InvalidInputError")
      [] ~get_validated_orbit_number(Val(start_orbit_number)).ok
         \/ ~get_validated_orbit_number(Val(end_orbit_number)).ok ->
            Err("InvalidInputError")
      [] OTHER ->
            Ok(Some([i \in 1..(Val(end_orbit_number)
                               - Val(start_orbit_number) + 1) |->
                        Val(start_orbit_number) + i - 1]))

\* get_frame_queryparams(frame_ids): an optional list of validated letters
get_frame_queryparams(frame_ids) ==
    IF IsNone(frame_ids) THEN Ok(None)
    ELSE IF \E i \in DOMAIN Val(frame_ids) :
                ~get_validated_frame_id(Val(frame_ids)[i]).ok
         THEN Err("InvalidInputError")
    ELSE Ok(Some([i \in DOMAIN Val(frame_ids) |->
                    get_validated_frame_id(Val(frame_ids)[i]).val]))

\* get_orbit_queryparams(start_orbit_number, end_orbit_number,
\* orbit_numbers): the given orbits and the range, sorted and unique
get_orbit_queryparams(start_orbit_number, end_orbit_number, orbit_numbers) ==
    LET given == IF IsNone(orbit_numbers) THEN <<>> ELSE Val(orbit_numbers)
        rng   == get_validated_orbit_number_range(start_orbit_number,
                                                  end_orbit_number)
    IN  IF ~rng.ok THEN Err(rng.err)
        ELSE Ok(SortedSeq(Range(given) \cup
                          (IF IsNone(rng.val) THEN {}
                           ELSE Range(Val(rng.val)))))

\* get_orbit_frame_tuple_list_from_separate_orbit_and_frame_lists(orbits,
\* frames): zip(np.tile(orbits, len(frames)), np.repeat(frames, len(orbits)))
get_orbit_frame_tuple_list_from_separate_orbit_and_frame_lists(orbits, frames) ==
    IF IsNone(orbits) \/ Val(orbits) = <<>> THEN None
    ELSE LET os == Val(orbits)
             fs == IF IsNone(frames) \/ Val(frames) = <<>> THEN FRAMES
                   ELSE Val(frames)
             n  == Len(os)
         IN  Some([k \in 1..(n * Len(fs)) |->
                     <<os[((k - 1) % n) + 1], fs[((k - 1) \div n) + 1]>>])

\* lines 1404-1427 of get_orbit_frame_tuple_list_from_strings: the two
\* lists orbit_numbers and frame_ids built from a start and an end name.
\* With a single orbit, orbit_numbers is computed from the length of
\* frame_ids before frame_ids is assigned (line 1411), i.e. from [].
RangeLists_NoMiddle(so, sf, eo, ef) ==
    LET len == IF eo - so + 1 > 0 THEN eo - so + 1 ELSE 0
        frame_ids_start == get_frame_range(sf, "H")
        frame_ids_end   == get_frame_range("A", ef)
    IN  IF len = 1
        THEN [orbit_numbers |-> Repeat(so, Len(<<>>)),
              frame_ids     |-> get_frame_range(sf, ef)]
        ELSE [orbit_numbers |->
                  Repeat(so, Len(frame_ids_start))
                  \o Repeat(eo, Len(frame_ids_end)),
              frame_ids |-> frame_ids_start \o frame_ids_end]
RangeLists(so, sf, eo, ef) ==
    LET len == IF eo - so + 1 > 0 THEN eo - so + 1 ELSE 0
        frame_ids_start == get_frame_range(sf, "H")
        frame_ids_end   == get_frame_range("A", ef)
        middle_o == [k \in 1..((len - 2) * NUM_FRAMES) |->
                        so + 1 + ((k - 1) \div NUM_FRAMES)]
        middle_f == [k \in 1..((len - 2) * NUM_FRAMES) |->
                        FRAMES[((k - 1) % NUM_FRAMES) + 1]]
    IN  IF len = 1
        THEN [orbit_numbers |-> Repeat(so, Len(<<>>)),
              frame_ids     |-> get_frame_range(sf, ef)]
        ELSE [orbit_numbers |->
                  Repeat(so, Len(frame_ids_start))
                  \o Repeat(eo, Len(frame_ids_end))
                  \o (IF len >= 3 THEN middle_o ELSE <<>>),
              frame_ids |->
                  frame_ids_start \o frame_ids_end
                  \o (IF len >= 3 THEN middle_f ELSE <<>>)]

\* get_orbit_frame_tuple_list_from_strings(start_orbit_and_frame,
\* end_orbit_and_frame, orbit_and_frames, orbit_frame_tuple_list): an
\* optional list of <<orbit, frame>>
get_orbit_frame_tuple_list_from_strings(start_oaf, end_oaf, oafs, prev) ==
    LET s == get_validated_orbit_and_frame(Val(start_oaf))
        e == get_validated_orbit_and_frame(Val(end_oaf))
        given == [i \in DOMAIN Val(oafs) |->
                     get_validated_orbit_and_frame(Val(oafs)[i])]
        rl == IF IsNone(start_oaf)
              THEN [orbit_numbers |-> <<>>, frame_ids |-> <<>>]
              ELSE RangeLists(s.val[1], s.val[2], e.val[1], e.val[2])
        orbit_numbers ==
            rl.orbit_numbers
            \o (IF IsNone(oafs) THEN <<>>
                ELSE [i \in DOMAIN given |-> given[i].val[1]])
        frame_ids ==
            rl.frame_ids
            \o (IF IsNone(oafs) THEN <<>>
                ELSE [i \in DOMAIN given |-> given[i].val[2]])
        new == IF Len(orbit_numbers) > 0
               THEN Some(Zip(orbit_numbers, frame_ids)) ELSE None
    IN  CASE IsNone(start_oaf) # IsNone(end_oaf) -> Err("InvalidInputError")
          [] ~IsNone(start_oaf) /\ ~s.ok -> Err(s.err)
          [] ~IsNone(start_oaf) /\ ~e.ok -> Err(e.err)
          [] ~IsNone(oafs) /\ \E i \in DOMAIN given : ~given[i].ok ->
                Err(given[CHOOSE i \in DOMAIN given :
                            ~given[i].ok
                            /\ \A j \in 1..(i - 1) : given[j].ok].err)
          [] ~IsNone(prev) /\ ~IsNone(new) -> Ok(Some(Val(prev) \o Val(new)))
          [] ~IsNone(prev) -> Ok(prev)
          [] OTHER -> Ok(new)

\* ''.join(sorted(''.join(x))): the letters of one orbit, sorted, with
\* repetitions
RECURSIVE SortedLetters(_, _)
SortedLetters(letters, i) ==
    IF i > NUM_FRAMES THEN <<>>
    ELSE SelectSeq(letters, LAMBDA c : c = FRAMES[i])
         \o SortedLetters(letters, i + 1)

\* the second components of the pairs whose first component is o
FramesOfOrbit(pairs, o) ==
    LET sel == SelectSeq(pairs, LAMBDA p : p[1] = o)
    IN  [i \in DOMAIN sel |-> sel[i][2]]

\* get_complete_and_incomplete_orbits(orbit_and_frames): the optional list
\* of complete orbits and the optional frame map, a list of
\* <<frame letter, orbits>> in the key order of groupby('frame_id')
get_complete_and_incomplete_orbits_KeepsComplete(orbit_and_frames) ==
    IF IsNone(orbit_and_frames) \/ Val(orbit_and_frames) = <<>>
    THEN [complete_orbits |-> None, incomplete_orbits_frame_map |-> None]
    ELSE
    LET df == Val(orbit_and_frames)
        orbits == {df[i][1] : i \in DOMAIN df}
        mask_complete == {o \in orbits :
                            SortedLetters(FramesOfOrbit(df, o), 1) = FRAMES}
        df_incomplete == df
        keys == SelectSeq(FRAMES, LAMBDA f :
                    \E i \in DOMAIN df_incomplete : df_incomplete[i][2] = f)
        OrbitsOfFrame(f) ==
            LET sel == SelectSeq(df_incomplete, LAMBDA p : p[2] = f)
            IN  [i \in DOMAIN sel |-> sel[i][1]]
    IN  [complete_orbits |-> Some(SortedSeq(mask_complete)),
         incomplete_orbits_frame_map |->
            Some([k \in DOMAIN keys |-> <<keys[k], OrbitsOfFrame(keys[k])>>])]
get_complete_and_incomplete_orbits(orbit_and_frames) ==
    IF IsNone(orbit_and_frames) \/ Val(orbit_and_frames) = <<>>
    THEN [complete_orbits |-> None, incomplete_orbits_frame_map |-> None]
    ELSE
    LET df == Val(orbit_and_frames)
        orbits == {df[i][1] : i \in DOMAIN df}
        mask_complete == {o \in orbits :
                            SortedLetters(FramesOfOrbit(df, o), 1) = FRAMES}
        df_incomplete == SelectSeq(df, LAMBDA p : p[1] \notin mask_complete)
        keys == SelectSeq(FRAMES, LAMBDA f :
                    \E i \in DOMAIN df_incomplete : df_incomplete[i][2] = f)
        OrbitsOfFrame(f) ==
            LET sel == SelectSeq(df_incomplete, LAMBDA p : p[2] = f)
            IN  [i \in DOMAIN sel |-> sel[i][1]]
    IN  [complete_orbits |-> Some(SortedSeq(mask_complete)),
         incomplete_orbits_frame_map |->
            Some([k \in DOMAIN keys |-> <<keys[k], OrbitsOfFrame(keys[k])>>])]

(***************************************************************************)
(* Request planner                                                         *)
(***************************************************************************)
\* split_list_into_chunks(lst, size)
NumChunks_RoundDown(lst, size) == Len(lst) \div size
NumChunks(lst, size) == (Len(lst) + size - 1) \div size

split_list_into_chunks(lst, size) ==
    [k \in 1..NumChunks(lst, size) |->
        SubSeq(lst, (k - 1) * size + 1,
               IF k * size <= Len(lst) THEN k * size ELSE Len(lst))]

\* get_applicable_collection_list(product_type)
JaxaL2Products == {"ATL_CLA_2A", "CPR_ECO_2A", "CPR_CLP_2A", "MSI_CLP_2A",
                   "AC__CLP_2B", "ACM_CLP_2B", "ALL_RAD_2B"}
Level1Products == {"ATL_NOM_1B", "ATL_DCC_1B", "ATL_CSC_1B", "ATL_FSC_1B",
                   "MSI_NOM_1B", "MSI_BBS_1B", "MSI_SD1_1B", "MSI_SD2_1B",
                   "BBR_NOM_1B", "BBR_SNG_1B", "BBR_SOL_1B", "BBR_LIN_1B",
                   "CPR_NOM_1B", "MSI_RGR_1C", "AUX_MET_1D", "AUX_JSG_1D"}
OrbitProducts == {"MPL_ORBSCT", "AUX_ORBPRE", "AUX_ORBRES"}

get_applicable_collection_list(product_type) ==
    CASE product_type = "AUX_MET_1D" ->
            <<"EarthCAREL0L1Products", "EarthCAREL1InstChecked",
              "EarthCAREXMETL1DProducts10">>
      [] product_type \in Level1Products ->
            <<"EarthCAREL0L1Products", "EarthCAREL1InstChecked",
              "EarthCAREL1Validated">>
      [] product_type \in JaxaL2Products ->
            <<"JAXAL2Products", "JAXAL2InstChecked", "JAXAL2Validated">>
      [] product_type \in OrbitProducts -> <<"EarthCAREAuxiliary">>
      [] OTHER ->
            <<"EarthCAREL2Products", "EarthCAREL2InstChecked",
              "EarthCAREL2Validated">>

\* the mission start of line 1477 and the value of pd.Timestamp.now() of
\* line 1479, on the time axis of the model
MISSION_START == 1
NOW == 9

\* SearchRequest(**basic_product_queryparams)
BasicRequest(product_type, product_version) ==
    [collection_identifier_list |->
         get_applicable_collection_list(product_type),
     product_type |-> product_type,
     product_version |-> IF product_version = "latest" THEN None
                         ELSE Some(product_version),
     radius |-> None, lat |-> None, lon |-> None, bbox |-> None,
     start_time |-> None, end_time |-> None,
     orbit_number |-> None, frame_id |-> None]

\* ... with **geo_location_queryparams and **time_queryparams
FilteredRequest(product_type, product_version, geo, start_time, end_time) ==
    [BasicRequest(product_type, product_version) EXCEPT
        !.radius = geo.radius, !.lat = geo.lat, !.lon = geo.lon,
        !.bbox = geo.bbox,
        !.start_time = start_time, !.end_time = end_time]

\* the requests of one orbit list: one per chunk
ChunkRequests(base, orbit_list, frame) ==
    LET chunks == split_list_into_chunks(orbit_list,
                                         MAX_NUM_ORBITS_PER_REQUEST)
    IN  [k \in DOMAIN chunks |->
            [base EXCEPT !.orbit_number = Some(chunks[k]),
                         !.frame_id = frame]]

RECURSIVE FlattenSeq(_)
FlattenSeq(ss) ==
    IF ss = <<>> THEN <<>> ELSE Head(ss) \o FlattenSeq(Tail(ss))

\* one pass of the loop body of create_list_of_search_requests (lines
\* 1469-1525) for one (product_type, product_version); acc holds
\* planned_requests and the local new_request, which outlives the pass
PlanPair(acc, pt, pv, geo, start_time, end_time, timestamps, complete_orbits, incomplete_map, frame_ids) ==
    LET basic == BasicRequest(pt, pv)
        base  == FilteredRequest(pt, pv, geo, start_time, end_time)
        ts_reqs ==
            IF IsNone(timestamps) THEN <<>>
            ELSE [i \in DOMAIN Val(timestamps) |->
                    [basic EXCEPT !.start_time = Some(Val(timestamps)[i]),
                                  !.end_time = Some(Val(timestamps)[i])]]
        complete_reqs ==
            IF IsNone(complete_orbits) THEN <<>>
            ELSE ChunkRequests(base, Val(complete_orbits), None)
        incomplete_reqs ==
            IF IsNone(incomplete_map) THEN <<>>
            ELSE FlattenSeq([k \in DOMAIN Val(incomplete_map) |->
                    ChunkRequests(base, Val(incomplete_map)[k][2],
                                  Some(Val(incomplete_map)[k][1]))])
        orbit_reqs == ts_reqs \o complete_reqs \o incomplete_reqs
        fallback == /\ IsNone(complete_orbits)
                    /\ IsNone(incomplete_map)
                    /\ ~IsNone(start_time)
                    /\ ~IsNone(end_time)
        frame_reqs ==
            IF fallback /\ ~IsNone(frame_ids)
            THEN [i \in DOMAIN Val(frame_ids) |->
                    [base EXCEPT !.frame_id = Some(Val(frame_ids)[i])]]
            ELSE <<>>
        \* every value assigned to new_request so far, oldest first
        assigned == acc.new_request \o orbit_reqs \o frame_reqs
        fallback_reqs ==
            CASE ~fallback -> <<>>
              [] IsNone(frame_ids) -> <<base>>
              \* line 1520: the append is placed after the loop over the
              \* frames, so only the last new_request is appended
              [] OTHER -> <<assigned[Len(assigned)]>>
        all == orbit_reqs \o fallback_reqs
    IN  IF fallback /\ ~IsNone(frame_ids) /\ assigned = <<>>
        THEN [acc EXCEPT !.err = "UnboundLocalError"]
        ELSE [planned |-> acc.planned \o all,
              new_request |-> IF assigned \o fallback_reqs = <<>> THEN <<>>
                              ELSE <<(assigned \o fallback_reqs)
                                        [Len(assigned \o fallback_reqs)]>>,
              err |-> acc.err]

RECURSIVE PlanPairs(_, _, _, _, _, _, _, _, _)
PlanPairs(acc, pairs, geo, start_time, end_time, timestamps, complete_orbits, incomplete_map, frame_ids) ==
    IF pairs = <<>> \/ acc.err # "none" THEN acc
    ELSE PlanPairs(PlanPair(acc, pairs[1][1], pairs[1][2], geo, start_time,
                            end_time, timestamps, complete_orbits,
                            incomplete_map, frame_ids),
                   Tail(pairs), geo, start_time, end_time, timestamps,
                   complete_orbits, incomplete_map, frame_ids)

\* create_list_of_search_requests(...): the planned requests, or the
\* exception raised while planning.  get_validated_orbit_number() is
\* applied to every orbit that goes into a request (lines 1493, 1504).
create_list_of_search_requests_NoDefaults(pairs, geo, start_time, end_time, timestamps, complete_orbits, incomplete_map, frame_ids) ==
    LET st == start_time
        en == end_time
        listed == (IF IsNone(complete_orbits) THEN {}
                   ELSE Range(Val(complete_orbits)))
                  \cup (IF IsNone(incomplete_map) THEN {}
                        ELSE UNION {Range(Val(incomplete_map)[k][2]) :
                                       k \in DOMAIN Val(incomplete_map)})
        r == PlanPairs([planned |-> <<>>, new_request |-> <<>>,
                        err |-> "none"],
                       pairs, geo, st, en, timestamps, complete_orbits,
                       incomplete_map, frame_ids)
    IN  IF pairs # <<>> /\ \E o \in listed :
                              ~get_validated_orbit_number(o).ok
        THEN Err("InvalidInputError")
        ELSE IF r.err # "none" THEN Err(r.err)
        ELSE Ok(r.planned)
create_list_of_search_requests(pairs, geo, start_time, end_time, timestamps, complete_orbits, incomplete_map, frame_ids) ==
    LET st == IF IsNone(start_time) /\ ~IsNone(end_time)
              THEN Some(MISSION_START) ELSE start_time
        en == IF ~IsNone(st) /\ IsNone(end_time) THEN Some(NOW)
              ELSE end_time
        listed == (IF IsNone(complete_orbits) THEN {}
                   ELSE Range(Val(complete_orbits)))
                  \cup (IF IsNone(incomplete_map) THEN {}
                        ELSE UNION {Range(Val(incomplete_map)[k][2]) :
                                       k \in DOMAIN Val(incomplete_map)})
        r == PlanPairs([planned |-> <<>>, new_request |-> <<>>,
                        err |-> "none"],
                       pairs, geo, st, en, timestamps, complete_orbits,
                       incomplete_map, frame_ids)
    IN  IF pairs # <<>> /\ \E o \in listed :
                              ~get_validated_orbit_number(o).ok
        THEN Err("InvalidInputError")
        ELSE IF r.err # "none" THEN Err(r.err)
        ELSE Ok(r.planned)

(***************************************************************************)
(* Input validation of main()                                              *)
(***************************************************************************)
\* get_validated_selected_index(selected_index): 1-based to 0-based
get_validated_selected_index_NoZeroCheck(selected_index) ==
    CASE IsNone(selected_index)    -> Ok(None)
      [] Val(selected_index) >= 1  -> Ok(Some(Val(selected_index) - 1))
      [] OTHER                     -> Ok(selected_index)
get_validated_selected_index(selected_index) ==
    CASE IsNone(selected_index)    -> Ok(None)
      [] Val(selected_index) >= 1  -> Ok(Some(Val(selected_index) - 1))
      [] Val(selected_index) = 0   -> Err("InvalidInputError")
      [] OTHER                     -> Ok(selected_index)

\* validate_combination_of_given_orbit_and_frame_range_inputs(...): TRUE
\* when InvalidInputError is raised
RangeCombinationInvalid_OrbitListAllowed(start_orbit_and_frame, end_orbit_and_frame, start_orbit_number, end_orbit_number, orbit_numbers, frame_ids) ==
    /\ ~IsNone(start_orbit_and_frame) \/ ~IsNone(end_orbit_and_frame)
    /\ \/ ~IsNone(start_orbit_number)
       \/ ~IsNone(end_orbit_number)
       \/ ~IsNone(frame_ids)
RangeCombinationInvalid(start_orbit_and_frame, end_orbit_and_frame, start_orbit_number, end_orbit_number, orbit_numbers, frame_ids) ==
    /\ ~IsNone(start_orbit_and_frame) \/ ~IsNone(end_orbit_and_frame)
    /\ \/ ~IsNone(start_orbit_number)
       \/ ~IsNone(end_orbit_number)
       \/ ~IsNone(orbit_numbers)
       \/ ~IsNone(frame_ids)

\* get_product_type_and_version_from_string(input_string).  A product name
\* is given as [spelling, baseline]: the text before the colon with blanks,
\* hyphens and underscores removed and lower-cased, and the optional text
\* after the colon in upper case.  Part of the table of lines 530-612.
TwoLetterBaselines == {"AA", "AB", "AC", "AD"}
ExpectedInputs ==
    [atlnom1b |-> "ATL_NOM_1B", atlnom |-> "ATL_NOM_1B", anom |-> "ATL_NOM_1B",
     atlebd2a |-> "ATL_EBD_2A", atlebd |-> "ATL_EBD_2A", aebd |-> "ATL_EBD_2A",
     atlcla2a |-> "ATL_CLA_2A", atlcla |-> "ATL_CLA_2A", acla |-> "ATL_CLA_2A"]

get_product_type_and_version_from_string(input) ==
    CASE ~IsNone(input.baseline)
         /\ Val(input.baseline) \notin TwoLetterBaselines ->
            Err("InvalidInputError")
      [] input.spelling \notin DOMAIN ExpectedInputs ->
            Err("InvalidInputError")
      [] OTHER ->
            Ok(<<ExpectedInputs[input.spelling],
                 IF IsNone(input.baseline) THEN "latest"
                 ELSE Val(input.baseline)>>)

\* A time given by the user is a point of the time axis, or BadTime for a
\* text pandas cannot parse; format_datetime_string() raises ValueError then
BadTime == -1
format_datetime_string(t) == IF t = BadTime THEN Err("ValueError") ELSE Ok(t)

\* get_time_queryparams(start_time, end_time, timestamps)
get_time_queryparams(start_time, end_time, timestamps) ==
    LET ts == IF IsNone(timestamps) THEN <<>> ELSE Val(timestamps)
    IN  CASE ~IsNone(start_time) /\ Val(start_time) = BadTime ->
                Err("ValueError")
          [] ~IsNone(end_time) /\ Val(end_time) = BadTime ->
                Err("ValueError")
          [] \E i \in DOMAIN ts : ts[i] = BadTime -> Err("ValueError")
          [] \E i \in DOMAIN ts :
                \/ ~IsNone(start_time) /\ ts[i] < Val(start_time)
                \/ ~IsNone(end_time) /\ ts[i] > Val(end_time) ->
                Err("InvalidInputError")
          [] OTHER ->
                Ok([start_time |-> start_time, end_time |-> end_time,
                    timestamps |-> timestamps])

(***************************************************************************)
(* Catalogue results                                                       *)
(***************************************************************************)
\* A row of a result dataframe is [idx, baseline, name, sensing,
\* processing, server]: idx is the index label of the row; the identifier
\* 'id' is the file name, ECA_<agency><latency><baseline>_<product name>_
\* <sensing start>_<processing start>_<orbit><frame>, so identifiers are
\* ordered by baseline, then product name, then the two times
BaselineOrder == <<"AA", "AB", "AC", "AD">>
NameOrder == <<"ATL_CLA_2A", "ATL_EBD_2A", "ATL_NOM_1B">>
RankIn(order, x) == CHOOSE i \in DOMAIN order : order[i] = x

IdOf(row) == <<RankIn(BaselineOrder, row.baseline),
               RankIn(NameOrder, row.name), row.sensing, row.processing>>

\* lexicographic order of two tuples of integers of the same length
TupleLess(a, b) ==
    \E i \in DOMAIN a : a[i] < b[i] /\ \A j \in 1..(i - 1) : a[j] = b[j]

\* a list ordered by the keys of its positions (tuples of integers), equal
\* keys in list order (stable)
RECURSIVE OrderBy(_, _, _)
OrderBy(seq, keys, todo) ==
    IF todo = {} THEN <<>>
    ELSE LET m == CHOOSE i \in todo : \A j \in todo \ {i} :
                     \/ TupleLess(keys[i], keys[j])
                     \/ (keys[i] = keys[j] /\ i < j)
         IN  <<seq[m]>> \o OrderBy(seq, keys, todo \ {m})

\* drop_duplicate_files(df, 'id'): sorted by product name, sensing start
\* and descending processing start; the first row of every (product name,
\* sensing start) is kept; the index is reset
DedupKey_KeepsEarliest(row) ==
    <<RankIn(NameOrder, row.name), row.sensing, row.processing>>
DedupKey(row) == <<RankIn(NameOrder, row.name), row.sensing,
                   0 - row.processing>>

drop_duplicate_files(df) ==
    LET sorted == OrderBy(df, [i \in DOMAIN df |-> DedupKey(df[i])],
                         DOMAIN df)
        first == SelectSeq([i \in DOMAIN sorted |-> <<i, sorted[i]>>],
                    LAMBDA p : \A j \in 1..(p[1] - 1) :
                        \/ sorted[j].name # p[2].name
                        \/ sorted[j].sensing # p[2].sensing)
    IN  [i \in DOMAIN first |-> [first[i][2] EXCEPT !.idx = i - 1]]

\* pd.concat(dfs, ignore_index=True)
Concat(dfs) ==
    LET all == FlattenSeq(dfs)
    IN  [i \in DOMAIN all |-> [all[i] EXCEPT !.idx = i - 1]]

\* dataframe.sort_values(by='id'): the rows keep their index labels
sort_values_by_id(df) ==
    OrderBy(df, [i \in DOMAIN df |-> IdOf(df[i])], DOMAIN df)

\* dataframe.iloc[[k]]: position k, negative k from the end; the optional
\* row, None for IndexError
iloc(df, k) ==
    CASE k >= 0 /\ k < Len(df)   -> Some(df[k + 1])
      [] k < 0 /\ 0 - k <= Len(df) -> Some(df[Len(df) + k + 1])
      [] OTHER -> None

VARIABLES
    \* ---- arguments of download() ----
    server,            \* dataframe['server'], one entry per row
    is_overwrite, is_unzip, is_delete,
    \* ---- control ----
    pc,                \* position inside download()
    error,             \* exception that left download(), "none" otherwise
    grp,               \* server of the current groupby group, 0 when none
    cur,               \* current row, 0 when none
    range_pos,         \* number of values range(MAX...) has yielded
    \* ---- locals of download() ----
    attempt, success, zip_file_exists, file_exists, try_download, try_unzip,
    counter, download_counter, unzip_counter,
    saml_response_cookies,  \* server whose cookie jar is held, 0 = none
    \* ---- filesystem, for the paths of the current row ----
    zip_file,          \* state of zip_file_path
    file_dir,          \* state of file_path
    \* ---- observation (history) variables ----
    result,            \* per row: "none", "success" or "failed" at loop exit
    reqs,              \* download requests issued for the current row
    unz,               \* unzip_file calls made for the current row
    dl_outcome,        \* outcome of this attempt's download, "none" if not tried
    e403_attempt,      \* 1-based attempt on which the current row first got 403
    start_both,        \* every row started so far had archive and directory
    n_login,           \* login and logout requests issued in this run
    any_download,      \* a download request was issued in this run
    fetched,           \* rows whose archive a download request fetched
    any_unzip,         \* unzip_file was called in this run
    logged_in,         \* servers whose SAML redirect POST succeeded
    \* ---- main(): arguments and locals ----
    args,              \* the parameters of main()
    m_pc,              \* position inside main()
    m_error,           \* exception that left main(), "none" otherwise
    raised_in,         \* the part of main() that raised it
    selected_index,
    type_version_tuples,
    queryparams,       \* time, spatial and frame query parameters
    orbit_frame_tuple_list,
    complete_orbits,
    incomplete_orbits_frame_map,
    planned_requests,
    selected_collections,
    request_ixd,       \* 1-based position in planned_requests
    coll_pos,          \* 1-based position in the request's collection list
    dfs,
    found_files,       \* the sorted list shown to the user
    dataframe,         \* the rows handed to download()
    \* ---- main(): observation variables ----
    any_catalogue,     \* an HTTP request was sent to the catalogue
    queried,           \* <<request, collection>> of every item search
    found_rows,        \* every row a catalogue answer held
    download_started,  \* download() was called
    \* ---- get_frame_range(): parameters and local ----
    start_frame_id,
    end_frame_id,
    frame_id_range     \* None before the call, then the returned list

dlVars == <<server, is_overwrite, is_unzip, is_delete, pc, error, grp, cur,
            range_pos, attempt, success, zip_file_exists, file_exists,
            try_download, try_unzip, counter, download_counter,
            unzip_counter, saml_response_cookies, zip_file, file_dir,
            result, reqs, unz, dl_outcome, e403_attempt, start_both,
            n_login, any_download, fetched, any_unzip, logged_in>>

mainVars == <<args, m_pc, m_error, raised_in, selected_index,
              type_version_tuples,
              queryparams, orbit_frame_tuple_list, complete_orbits,
              incomplete_orbits_frame_map, planned_requests,
              selected_collections, request_ixd, coll_pos, dfs, found_files,
              dataframe, any_catalogue, queried, found_rows,
              download_started>>

frVars == <<start_frame_id, end_frame_id, frame_id_range>>

vars == <<dlVars, mainVars, frVars>>

(***************************************************************************)
(* dataframe.groupby('server'): groups in ascending key order, the rows    *)
(* of a group in dataframe order                                           *)
(***************************************************************************)
SetMin(S) == CHOOSE x \in S : \A y \in S : x <= y

GroupRows(s) == {i \in Rows : server[i] = s}

NextGroup(g) ==
    LET later == {s \in Servers : s > g /\ GroupRows(s) # {}}
    IN  IF later = {} THEN 0 ELSE SetMin(later)

NextRow_AnyServer(s, i) ==
    LET later == {j \in Rows : j > i}
    IN  IF later = {} THEN 0 ELSE SetMin(later)
NextRow(s, i) ==
    LET later == {j \in GroupRows(s) : j > i}
    IN  IF later = {} THEN 0 ELSE SetMin(later)

\* "for attempt in range(MAX_DOWNLOAD_ATTEMPTS_PER_FILE)": the loop goes on
\* while the range iterator has values left; the value of the loop variable
\* (which line 1004 overwrites) is not consulted
LoopContinues_OffByOne(attempt_, range_pos_) ==
    range_pos_ <= MAX_DOWNLOAD_ATTEMPTS_PER_FILE
LoopContinues(attempt_, range_pos_) ==
    range_pos_ < MAX_DOWNLOAD_ATTEMPTS_PER_FILE

\* an exception that no handler of download() catches
Raise(e) ==
    /\ pc' = "aborted"
    /\ error' = e

\* main() before its first statement, for the given arguments
MainStart(a) ==
    /\ args = a
    /\ m_pc = "validate"
    /\ m_error = "none"
    /\ raised_in = "none"
    /\ selected_index = None
    /\ type_version_tuples = <<>>
    /\ queryparams = <<>>
    /\ orbit_frame_tuple_list = None
    /\ complete_orbits = None
    /\ incomplete_orbits_frame_map = None
    /\ planned_requests = <<>>
    /\ selected_collections = {}
    /\ request_ixd = 0
    /\ coll_pos = 0
    /\ dfs = <<>>
    /\ found_files = <<>>
    /\ dataframe = <<>>
    /\ any_catalogue = FALSE
    /\ queried = <<>>
    /\ found_rows = {}
    /\ download_started = FALSE

\* download() before its first statement, for the given arguments
DownloadStart(server_, overwrite_, unzip_, delete_) ==
    /\ server = server_
    /\ is_overwrite = overwrite_
    /\ is_unzip = unzip_
    /\ is_delete = delete_
    /\ pc = "group_top"
    /\ error = "none"
    /\ grp = 0
    /\ cur = 0
    /\ range_pos = 0
    /\ attempt = 0
    /\ success = FALSE
    /\ zip_file_exists = FALSE
    /\ file_exists = FALSE
    /\ try_download = FALSE
    /\ try_unzip = FALSE
    /\ counter = 1
    /\ download_counter = 0
    /\ unzip_counter = 0
    /\ saml_response_cookies = 0
    /\ zip_file = "absent"
    /\ file_dir = "absent"
    /\ result = [i \in Rows |-> "none"]
    /\ reqs = 0
    /\ unz = 0
    /\ dl_outcome = "none"
    /\ e403_attempt = 0
    /\ start_both = TRUE
    /\ n_login = 0
    /\ any_download = FALSE
    /\ fetched = {}
    /\ any_unzip = FALSE
    /\ logged_in = {}

\* get_frame_range() is not running
FrameRangeIdle ==
    /\ start_frame_id = "A"
    /\ end_frame_id = "A"
    /\ frame_id_range = None

Init ==
    /\ FrameRangeIdle
    /\ \E col \in [Rows -> Servers], o \in BOOLEAN, u \in BOOLEAN,
          d \in BOOLEAN : DownloadStart(col, o, u, d)
    /\ MainStart(<<>>)

(***************************************************************************)
(* download(): the loop over the server groups and the SAML login          *)
(***************************************************************************)
\* for server, df_group in dataframe.groupby('server')
GroupTop ==
    /\ pc = "group_top"
    /\ grp' = NextGroup(grp)
    /\ pc' = IF NextGroup(grp) = 0 THEN "return" ELSE "login_get"
    /\ cur' = 0
    /\ UNCHANGED <<server, is_overwrite, is_unzip, is_delete, error,
                   range_pos, attempt, success, zip_file_exists,
                   file_exists, try_download, try_unzip, counter,
                   download_counter, unzip_counter, saml_response_cookies,
                   zip_file, file_dir, result, reqs, unz, dl_outcome,
                   e403_attempt, start_both, n_login, any_download,
                   fetched, any_unzip,
                   logged_in>>
    /\ UNCHANGED mainVars
    /\ UNCHANGED frVars

\* what the three login steps and the two logout steps leave alone
LoginFrame ==
    UNCHANGED <<server, is_overwrite, is_unzip, is_delete, grp, cur,
                range_pos, attempt, success, zip_file_exists, file_exists,
                try_download, try_unzip, counter, download_counter,
                unzip_counter, zip_file, file_dir, result, reqs, unz,
                dl_outcome, e403_attempt, start_both, any_download,
                fetched, any_unzip>>

\* raise BadResponseError(exception_msg): no handler in download() or main()
RaiseBadResponse_CaughtPerGroup ==
    /\ pc' = "group_top"
    /\ error' = "BadResponseError"
RaiseBadResponse ==
    Raise("BadResponseError")

\* GET https://<oads_hostname>/oads/access/login, validate_request_response
LoginGet ==
    /\ pc = "login_get"
    /\ n_login' = n_login + 1
    /\ \E r \in LoginOutcomes :
          IF r = "ok"
          THEN pc' = "login_idp" /\ error' = error
          ELSE Raise("RequestException")
    /\ UNCHANGED <<saml_response_cookies, logged_in>>
    /\ LoginFrame
    /\ UNCHANGED mainVars
    /\ UNCHANGED frVars

\* POST credentials to https://eoiam-idp.eo.esa.int/samlsso and extraction
\* of RelayState and SAMLResponse from the answer
LoginIdp ==
    /\ pc = "login_idp"
    /\ n_login' = n_login + 1
    /\ \E r \in LoginOutcomes \cup {"no_tokens"} :
          CASE r = "ok"        -> pc' = "login_saml" /\ error' = error
            [] r = "no_tokens" -> RaiseBadResponse
            [] OTHER           -> Raise("RequestException")
    /\ UNCHANGED <<saml_response_cookies, logged_in>>
    /\ LoginFrame
    /\ UNCHANGED mainVars
    /\ UNCHANGED frVars

\* POST RelayState and SAMLResponse to the redirect URL; the cookies of the
\* answer become saml_response_cookies
LoginSaml ==
    /\ pc = "login_saml"
    /\ n_login' = n_login + 1
    /\ \E r \in LoginOutcomes :
          IF r = "ok"
          THEN /\ pc' = "row_top"
               /\ error' = error
               /\ saml_response_cookies' = grp
               /\ logged_in' = logged_in \cup {grp}
          ELSE /\ Raise("RequestException")
               /\ UNCHANGED <<saml_response_cookies, logged_in>>
    /\ LoginFrame
    /\ UNCHANGED mainVars
    /\ UNCHANGED frVars

\* GET https://<oads_hostname>/oads/Shibboleth.sso/Logout
LogoutOads ==
    /\ pc = "logout_oads"
    /\ n_login' = n_login + 1
    /\ \E r \in LoginOutcomes :
          IF r = "ok"
          THEN pc' = "logout_idp" /\ error' = error
          ELSE Raise("RequestException")
    /\ UNCHANGED <<saml_response_cookies, logged_in>>
    /\ LoginFrame
    /\ UNCHANGED mainVars
    /\ UNCHANGED frVars

\* GET https://eoiam-idp.eo.esa.int/Shibboleth.sso/Logout
LogoutIdp ==
    /\ pc = "logout_idp"
    /\ n_login' = n_login + 1
    /\ \E r \in LoginOutcomes :
          IF r = "ok"
          THEN pc' = "group_top" /\ error' = error
          ELSE Raise("RequestException")
    /\ UNCHANGED <<saml_response_cookies, logged_in>>
    /\ LoginFrame
    /\ UNCHANGED mainVars
    /\ UNCHANGED frVars

(***************************************************************************)
(* download(): the per-file retry loop                                     *)
(***************************************************************************)
\* try_download = is_overwrite or (not zip_file_exists and not file_exists)
TryDownload_IgnoresArchive(overwrite_, zip_exists_, dir_exists_) ==
    overwrite_ \/ ~dir_exists_
TryDownload(overwrite_, zip_exists_, dir_exists_) ==
    overwrite_ \/ (~zip_exists_ /\ ~dir_exists_)

\* try_unzip = is_unzip and (is_overwrite or not file_exists)
TryUnzip_IgnoresExisting(unzip_, overwrite_, dir_exists_) ==
    unzip_
TryUnzip(unzip_, overwrite_, dir_exists_) ==
    unzip_ /\ (overwrite_ \/ ~dir_exists_)

\* the row's retry loop is left (break, or the range is exhausted) with the
\* given value of success
ExitLoop(ok_) ==
    /\ result' = [result EXCEPT ![cur] = IF ok_ THEN "success" ELSE "failed"]
    /\ pc' = "row_top"

\* for index, row in df_group.iterrows(): lines 901-920; the two paths of the
\* row are looked at for the first time, so what is there is an input
RowTop ==
    /\ pc = "row_top"
    /\ IF NextRow(grp, cur) = 0
       THEN /\ pc' = "logout_oads"
            /\ UNCHANGED <<cur, success, zip_file, file_dir, range_pos,
                           reqs, unz, dl_outcome, e403_attempt, start_both>>
       ELSE /\ cur' = NextRow(grp, cur)
            /\ success' = FALSE
            /\ zip_file' \in ZipStates
            /\ file_dir' \in DirStates
            /\ start_both' = (start_both /\ zip_file' # "absent"
                                         /\ file_dir' # "absent")
            /\ range_pos' = 0
            /\ reqs' = 0
            /\ unz' = 0
            /\ dl_outcome' = "none"
            /\ e403_attempt' = 0
            /\ pc' = "attempt_top"
    /\ UNCHANGED <<server, is_overwrite, is_unzip, is_delete, error, grp,
                   attempt, zip_file_exists, file_exists, try_download,
                   try_unzip, counter, download_counter, unzip_counter,
                   saml_response_cookies, result, n_login, any_download,
                   fetched,
                   any_unzip, logged_in>>
    /\ UNCHANGED mainVars
    /\ UNCHANGED frVars

\* lines 922-958: the head of one attempt: existence checks, the two
\* decisions, the skip, the removal of a stale archive and the removals of
\* overwrite.  file_path is the directory extractall() wrote, and
\* os.remove() of a directory raises (IsADirectoryError / PermissionError)
AttemptTop ==
    /\ pc = "attempt_top"
    /\ LET zfe == zip_file # "absent"
           fe  == file_dir # "absent"
           td  == TryDownload(is_overwrite, zfe, fe)
           tu  == TryUnzip(is_unzip, is_overwrite, fe)
           z1  == IF is_delete /\ fe /\ zfe THEN "absent" ELSE zip_file
           z2  == IF z1 # "absent" /\ is_overwrite THEN "absent" ELSE z1
       IN  /\ attempt' = range_pos
           /\ range_pos' = range_pos + 1
           /\ success' = TRUE
           /\ try_download' = td
           /\ try_unzip' = tu
           /\ dl_outcome' = "none"
           /\ IF ~td /\ ~tu
              THEN /\ counter' = counter + 1
                   /\ ExitLoop(TRUE)
                   /\ zip_file_exists' = zfe
                   /\ file_exists' = fe
                   /\ UNCHANGED <<zip_file, error>>
              ELSE /\ zip_file' = z2
                   /\ zip_file_exists' = (z2 # "absent")
                   /\ UNCHANGED <<counter, result>>
                   /\ IF fe /\ is_overwrite
                      THEN /\ Raise("IsADirectoryError")
                           /\ file_exists' = fe
                      ELSE /\ file_exists' = fe
                           /\ pc' = IF td THEN "download" ELSE "unzip"
                           /\ error' = error
    /\ UNCHANGED <<server, is_overwrite, is_unzip, is_delete, grp, cur,
                   download_counter, unzip_counter, saml_response_cookies,
                   file_dir, reqs, unz, e403_attempt, start_both, n_login,
                   any_download,
                   fetched, any_unzip, logged_in>>
    /\ UNCHANGED mainVars
    /\ UNCHANGED frVars

\* lines 961-1013: one download request.  The archive is opened for writing
\* only after validate_request_response() passed, so an error before the
\* body leaves no file and an error while streaming leaves a truncated one.
\* A 403 only assigns the loop variable (line 1004).
Download_SuccessUnchecked ==
    /\ pc = "download"
    /\ reqs' = reqs + 1
    /\ any_download' = TRUE
    /\ \E o \in DownloadOutcomes :
          /\ dl_outcome' = o
          /\ fetched' = IF o \in {"ok_len", "ok_nolen"}
                        THEN fetched \cup {cur} ELSE fetched
          /\ zip_file' = CASE o \in {"ok_len", "ok_nolen"} -> "full"
                           [] o = "err_mid"                -> "partial"
                           [] OTHER                        -> zip_file
          /\ download_counter' =
                IF o = "ok_len" THEN download_counter + 1 ELSE download_counter
          /\ attempt' =
                IF o = "e403" THEN MAX_DOWNLOAD_ATTEMPTS_PER_FILE ELSE attempt
          /\ e403_attempt' =
                IF o = "e403" /\ e403_attempt = 0 THEN range_pos
                ELSE e403_attempt
          /\ success' = success
    /\ pc' = IF try_unzip THEN "unzip" ELSE "attempt_end"
    /\ UNCHANGED <<server, is_overwrite, is_unzip, is_delete, error, grp,
                   cur, range_pos, zip_file_exists, file_exists,
                   try_download, try_unzip, counter, unzip_counter,
                   saml_response_cookies, file_dir, result, unz, start_both,
                   n_login, any_unzip, logged_in>>
    /\ UNCHANGED mainVars
    /\ UNCHANGED frVars
Download ==
    /\ pc = "download"
    /\ reqs' = reqs + 1
    /\ any_download' = TRUE
    /\ \E o \in DownloadOutcomes :
          /\ dl_outcome' = o
          /\ fetched' = IF o \in {"ok_len", "ok_nolen"}
                        THEN fetched \cup {cur} ELSE fetched
          /\ zip_file' = CASE o \in {"ok_len", "ok_nolen"} -> "full"
                           [] o = "err_mid"                -> "partial"
                           [] OTHER                        -> zip_file
          /\ download_counter' =
                IF o = "ok_len" THEN download_counter + 1 ELSE download_counter
          /\ attempt' =
                IF o = "e403" THEN MAX_DOWNLOAD_ATTEMPTS_PER_FILE ELSE attempt
          /\ e403_attempt' =
                IF o = "e403" /\ e403_attempt = 0 THEN range_pos
                ELSE e403_attempt
          \* download_success = os.path.exists(zip_file_path)
          /\ success' = (success /\ zip_file' # "absent")
    /\ pc' = IF try_unzip THEN "unzip" ELSE "attempt_end"
    /\ UNCHANGED <<server, is_overwrite, is_unzip, is_delete, error, grp,
                   cur, range_pos, zip_file_exists, file_exists,
                   try_download, try_unzip, counter, unzip_counter,
                   saml_response_cookies, file_dir, result, unz, start_both,
                   n_login, any_unzip, logged_in>>
    /\ UNCHANGED mainVars
    /\ UNCHANGED frVars

\* what ZipFile(...).extractall() can do with the archive: a truncated one
\* is rejected when it is opened; a complete one is extracted, rejected when
\* opened, or rejected at a member after the directory was created
ExtractOutcomes(zip_) ==
    IF zip_ = "full" THEN {"ok", "bad_zip", "bad_zip_partial"}
    ELSE {"bad_zip"}

\* unzip_file(filepath, delete, delete_on_error): lines 457-503, as the
\* triple <<return value, archive afterwards, directory afterwards>>
unzip_file_DeleteOnErrorAsDelete(zip_, dir_, delete_, delete_on_error_, x_) ==
    CASE zip_ = "absent" -> <<FALSE, zip_, dir_>>
      [] x_ = "ok" ->
            <<TRUE, IF delete_ THEN "absent" ELSE zip_, "full">>
      [] OTHER ->
            <<FALSE,
              IF delete_ THEN "absent" ELSE zip_,
              IF x_ = "bad_zip_partial" /\ dir_ = "absent"
              THEN "partial" ELSE dir_>>
unzip_file(zip_, dir_, delete_, delete_on_error_, x_) ==
    CASE zip_ = "absent" -> <<FALSE, zip_, dir_>>
      [] x_ = "ok" ->
            <<TRUE, IF delete_ THEN "absent" ELSE zip_, "full">>
      [] OTHER ->
            <<FALSE,
              IF delete_on_error_ THEN "absent" ELSE zip_,
              IF x_ = "bad_zip_partial" /\ dir_ = "absent"
              THEN "partial" ELSE dir_>>

\* lines 1016-1025: success = unzip_file(..., delete=is_delete,
\* delete_on_error=True); unzip_success = os.path.exists(file_path)
Unzip ==
    /\ pc = "unzip"
    /\ unz' = unz + 1
    /\ any_unzip' = TRUE
    /\ \E x \in ExtractOutcomes(zip_file) :
          LET r == unzip_file(zip_file, file_dir, is_delete, TRUE, x)
              unzip_success == r[3] # "absent"
          IN  /\ zip_file' = r[2]
              /\ file_dir' = r[3]
              /\ unzip_counter' =
                    IF unzip_success THEN unzip_counter + 1
                    ELSE unzip_counter
              /\ success' = (r[1] /\ unzip_success)
    /\ pc' = "attempt_end"
    /\ UNCHANGED <<server, is_overwrite, is_unzip, is_delete, error, grp,
                   cur, range_pos, attempt, zip_file_exists, file_exists,
                   try_download, try_unzip, counter, download_counter,
                   saml_response_cookies, result, reqs, dl_outcome,
                   e403_attempt, start_both, n_login, any_download,
                   fetched, logged_in>>
    /\ UNCHANGED mainVars
    /\ UNCHANGED frVars

\* lines 1027-1029 and the loop header: break on success, else the next
\* value of the range, else the loop is over
AttemptEnd_NoRetry ==
    /\ pc = "attempt_end"
    /\ IF success
       THEN /\ counter' = counter + 1
            /\ ExitLoop(TRUE)
       ELSE /\ counter' = counter
            /\ ExitLoop(FALSE)
    /\ UNCHANGED <<server, is_overwrite, is_unzip, is_delete, error, grp,
                   cur, range_pos, attempt, success, zip_file_exists,
                   file_exists, try_download, try_unzip, download_counter,
                   unzip_counter, saml_response_cookies, zip_file, file_dir,
                   reqs, unz, dl_outcome, e403_attempt, start_both, n_login,
                   any_download,
                   fetched, any_unzip, logged_in>>
    /\ UNCHANGED mainVars
    /\ UNCHANGED frVars
AttemptEnd ==
    /\ pc = "attempt_end"
    /\ IF success
       THEN /\ counter' = counter + 1
            /\ ExitLoop(TRUE)
       ELSE /\ counter' = counter
            /\ IF LoopContinues(attempt, range_pos)
               THEN pc' = "attempt_top" /\ result' = result
               ELSE ExitLoop(FALSE)
    /\ UNCHANGED <<server, is_overwrite, is_unzip, is_delete, error, grp,
                   cur, range_pos, attempt, success, zip_file_exists,
                   file_exists, try_download, try_unzip, download_counter,
                   unzip_counter, saml_response_cookies, zip_file, file_dir,
                   reqs, unz, dl_outcome, e403_attempt, start_both, n_login,
                   any_download,
                   fetched, any_unzip, logged_in>>
    /\ UNCHANGED mainVars
    /\ UNCHANGED frVars

\* lines 1035-1038: the aggregate results are returned
Return ==
    /\ pc = "return"
    /\ pc' = "returned"
    /\ UNCHANGED <<server, is_overwrite, is_unzip, is_delete, error, grp,
                   cur, range_pos, attempt, success, zip_file_exists,
                   file_exists, try_download, try_unzip, counter,
                   download_counter, unzip_counter, saml_response_cookies,
                   zip_file, file_dir, result, reqs, unz, dl_outcome,
                   e403_attempt, start_both, n_login, any_download,
                   fetched, any_unzip,
                   logged_in>>
    /\ UNCHANGED mainVars
    /\ UNCHANGED frVars

Next ==
    \/ GroupTop
    \/ LoginGet
    \/ LoginIdp
    \/ LoginSaml
    \/ RowTop
    \/ AttemptTop
    \/ Download
    \/ Unzip
    \/ AttemptEnd
    \/ LogoutOads
    \/ LogoutIdp
    \/ Return

Spec == Init /\ [][Next]_vars

TypeOK ==
    /\ pc \in {"group_top", "login_get", "login_idp", "login_saml",
               "row_top", "attempt_top", "download", "unzip", "attempt_end",
               "logout_oads", "logout_idp", "return", "returned", "aborted"}
    /\ zip_file \in ZipStates
    /\ file_dir \in DirStates
    /\ attempt \in 0..MAX_DOWNLOAD_ATTEMPTS_PER_FILE

(***************************************************************************)
(* main()                                                                  *)
(***************************************************************************)
\* str(n) for n >= 0
RECURSIVE IntToDigits(_)
IntToDigits(n) ==
    IF n < 10 THEN <<Digits[n + 1]>>
    ELSE IntToDigits(n \div 10) \o <<Digits[(n % 10) + 1]>>

\* str.zfill(width)
zfill(cs, width) ==
    IF Len(cs) >= width THEN cs ELSE Repeat("0", width - Len(cs)) \o cs

\* format_orbit_and_frame(orbit_number, frame_id)
format_orbit_and_frame(orbit_number, frame_id) ==
    zfill(IntToDigits(orbit_number), 5) \o <<Upper(frame_id)>>

\* get_radius_queryparams(radius_search): three texts, here of digits
get_radius_queryparams(radius_search) ==
    IF IsNone(radius_search)
    THEN Ok([radius |-> None, lat |-> None, lon |-> None])
    ELSE LET r == [i \in 1..3 |-> ParseInt(Val(radius_search)[i])]
         IN  IF \E i \in 1..3 : ~r[i].ok THEN Err("ValueError")
             ELSE Ok([radius |-> Some(r[1].val), lat |-> Some(r[2].val),
                      lon |-> Some(r[3].val)])

\* get_bbox_queryparam(bounding_box): float(x[1]) reads the second character
\* of every text
get_bbox_queryparam(bounding_box) ==
    IF IsNone(bounding_box) THEN Ok(None)
    ELSE LET b == Val(bounding_box)
             bad == {i \in DOMAIN b : Len(b[i]) < 2 \/ ~IsDigit(b[i][2])}
         IN  IF bad = {}
             THEN Ok(Some([i \in DOMAIN b |-> DigitVal(b[i][2])]))
             ELSE IF Len(b[SetMin(bad)]) < 2 THEN Err("IndexError")
             ELSE Err("ValueError")

\* an exception leaves main(); the handler of line 1802 logs it
Abort(part, e) ==
    /\ m_pc' = "aborted"
    /\ m_error' = e
    /\ raised_in' = part

NoAbort == UNCHANGED <<m_error, raised_in>>

\* lines 1567-1574
ValidateInputs ==
    /\ m_pc = "validate"
    /\ LET si == get_validated_selected_index(args.download_idx)
       IN  IF ~si.ok
           THEN Abort("validate", si.err) /\ UNCHANGED selected_index
           ELSE /\ selected_index' = si.val
                /\ IF RangeCombinationInvalid(
                          args.start_orbit_and_frame,
                          args.end_orbit_and_frame,
                          args.start_orbit_number, args.end_orbit_number,
                          args.orbit_numbers, args.frame_ids)
                   THEN Abort("validate", "InvalidInputError")
                   ELSE m_pc' = "convert" /\ NoAbort
    /\ UNCHANGED <<args, type_version_tuples, queryparams,
                   orbit_frame_tuple_list, complete_orbits,
                   incomplete_orbits_frame_map, planned_requests,
                   selected_collections, request_ixd, coll_pos, dfs,
                   found_files, dataframe, any_catalogue, queried,
                   download_started>>
    /\ UNCHANGED found_rows
    /\ UNCHANGED dlVars
    /\ UNCHANGED frVars

\* lines 1576-1612
ConvertInputs ==
    /\ m_pc = "convert"
    /\ LET tv == [i \in DOMAIN args.product_types |->
                    get_product_type_and_version_from_string(
                        args.product_types[i])]
           tv_bad == {i \in DOMAIN tv : ~tv[i].ok}
           product_versions ==
               [i \in DOMAIN tv |->
                   IF ~IsNone(args.product_version)
                      /\ tv[i].val[2] = "latest"
                   THEN Val(args.product_version) ELSE tv[i].val[2]]
           time == get_time_queryparams(args.start_time, args.end_time,
                                        args.timestamps)
           rad == get_radius_queryparams(args.radius_search)
           bbox == get_bbox_queryparam(args.bounding_box)
           frames == get_frame_queryparams(args.frame_ids)
           orbits == get_orbit_queryparams(args.start_orbit_number,
                                           args.end_orbit_number,
                                           args.orbit_numbers)
           tl1 == get_orbit_frame_tuple_list_from_separate_orbit_and_frame_lists(
                      Some(orbits.val), frames.val)
           tl2 == get_orbit_frame_tuple_list_from_strings(
                      args.start_orbit_and_frame, args.end_orbit_and_frame,
                      args.orbit_and_frames, tl1)
           part == get_complete_and_incomplete_orbits(tl2.val)
           steps == <<time, rad, bbox, frames, orbits, tl2>>
           bad == {i \in DOMAIN steps : ~steps[i].ok}
       IN  IF tv_bad # {} \/ bad # {}
           THEN /\ Abort("convert",
                         IF tv_bad # {} THEN tv[SetMin(tv_bad)].err
                         ELSE steps[SetMin(bad)].err)
                /\ UNCHANGED <<type_version_tuples, queryparams,
                               orbit_frame_tuple_list, complete_orbits,
                               incomplete_orbits_frame_map>>
           ELSE /\ m_pc' = "plan"
                /\ NoAbort
                /\ type_version_tuples' =
                       [i \in DOMAIN tv |->
                           <<tv[i].val[1], product_versions[i]>>]
                /\ queryparams' =
                       [start_time |-> time.val.start_time,
                        end_time |-> time.val.end_time,
                        timestamps |-> time.val.timestamps,
                        geo |-> [radius |-> rad.val.radius,
                                 lat |-> rad.val.lat, lon |-> rad.val.lon,
                                 bbox |-> bbox.val],
                        frame_ids |-> frames.val,
                        orbit_numbers |-> orbits.val]
                /\ orbit_frame_tuple_list' = tl2.val
                /\ complete_orbits' = part.complete_orbits
                /\ incomplete_orbits_frame_map' =
                       part.incomplete_orbits_frame_map
    /\ UNCHANGED <<args, selected_index, planned_requests,
                   selected_collections, request_ixd, coll_pos, dfs,
                   found_files, dataframe, any_catalogue, queried,
                   download_started>>
    /\ UNCHANGED found_rows
    /\ UNCHANGED dlVars
    /\ UNCHANGED frVars

\* lines 1615-1620
PlanRequests ==
    /\ m_pc = "plan"
    /\ LET r == create_list_of_search_requests(
                    type_version_tuples, queryparams.geo,
                    queryparams.start_time, queryparams.end_time,
                    queryparams.timestamps, complete_orbits,
                    incomplete_orbits_frame_map, args.frame_ids)
       IN  IF r.ok
           THEN planned_requests' = r.val /\ m_pc' = "config" /\ NoAbort
           ELSE Abort("plan", r.err) /\ UNCHANGED planned_requests
    /\ UNCHANGED <<args, selected_index, type_version_tuples, queryparams,
                   orbit_frame_tuple_list, complete_orbits,
                   incomplete_orbits_frame_map, selected_collections,
                   request_ixd, coll_pos, dfs, found_files, dataframe,
                   any_catalogue, queried, download_started>>
    /\ UNCHANGED found_rows
    /\ UNCHANGED dlVars
    /\ UNCHANGED frVars

\* the values of 'collections' a configuration file may hold
ConfigCollections ==
    {{"EarthCAREL0L1Products", "EarthCAREL1InstChecked",
      "EarthCAREL1Validated", "EarthCAREL2Products", "EarthCAREL2InstChecked",
      "EarthCAREL2Validated"},
     {"EarthCAREL1Validated", "EarthCAREL2Validated"},
     {"JAXAL2Validated"}}

\* lines 1627-1667: the configuration file and the data directory
ReadConfig ==
    /\ m_pc = "config"
    /\ \E config_exists \in BOOLEAN, data_exists \in BOOLEAN,
          collections \in ConfigCollections :
          /\ IF config_exists THEN selected_collections' = collections
             ELSE UNCHANGED selected_collections
          /\ IF config_exists /\ data_exists
             THEN m_pc' = "search" /\ request_ixd' = 1 /\ dfs' = <<>>
                  /\ NoAbort
             ELSE Abort("config", "FileNotFoundError")
                  /\ UNCHANGED <<request_ixd, dfs>>
    /\ UNCHANGED <<args, selected_index, type_version_tuples, queryparams,
                   orbit_frame_tuple_list, complete_orbits,
                   incomplete_orbits_frame_map, planned_requests, coll_pos,
                   found_files, dataframe, any_catalogue, queried,
                   download_started>>
    /\ UNCHANGED found_rows
    /\ UNCHANGED dlVars
    /\ UNCHANGED frVars

\* lines 1668-1679: the next planned request and its allowed collections
RequestTop ==
    /\ m_pc = "search"
    /\ IF request_ixd > Len(planned_requests)
       THEN m_pc' = "select" /\ UNCHANGED <<planned_requests, coll_pos>>
       ELSE /\ planned_requests' =
                  [planned_requests EXCEPT
                      ![request_ixd].collection_identifier_list =
                          SelectSeq(@, LAMBDA c : c \in selected_collections)]
            /\ coll_pos' = 1
            /\ m_pc' = "collection"
    /\ UNCHANGED <<args, m_error, raised_in, selected_index,
                   type_version_tuples, queryparams, orbit_frame_tuple_list,
                   complete_orbits, incomplete_orbits_frame_map,
                   selected_collections, request_ixd, dfs, found_files,
                   dataframe, any_catalogue, queried, download_started>>
    /\ UNCHANGED found_rows
    /\ UNCHANGED dlVars
    /\ UNCHANGED frVars

\* Rows the catalogue may return: X and Y differ in sensing start, X2 is a
\* reprocessing of X
RowX  == [idx |-> 0, baseline |-> "AD", name |-> "ATL_NOM_1B", sensing |-> 1,
          processing |-> 1, server |-> 1]
RowX2 == [RowX EXCEPT !.processing = 2]
RowY  == [idx |-> 0, baseline |-> "AA", name |-> "ATL_NOM_1B", sensing |-> 2,
          processing |-> 1, server |-> 2]

\* get_df(): the rows of one answer, indexed from 0
CatalogueAnswers ==
    {<<>>, <<RowX>>, <<RowX, [RowY EXCEPT !.idx = 1]>>,
     <<RowX, [RowX2 EXCEPT !.idx = 1]>>}

\* lines 1680-1710: one pass of the loop over the collections of a request
QueryCollection_NoBreak ==
    /\ m_pc = "collection"
    /\ LET list == planned_requests[request_ixd].collection_identifier_list
       IN  IF coll_pos > Len(list)
           THEN /\ request_ixd' = request_ixd + 1
                /\ m_pc' = "search"
                /\ NoAbort
                /\ UNCHANGED <<coll_pos, dfs, any_catalogue, queried,
                               found_rows>>
           ELSE \/ \* get_url_of_collection_items() raises: continue
                   /\ any_catalogue' = TRUE
                   /\ coll_pos' = coll_pos + 1
                   /\ NoAbort
                   /\ UNCHANGED <<m_pc, request_ixd, dfs, queried,
                                  found_rows>>
                \/ \* get_product_list_json() raises
                   /\ any_catalogue' = TRUE
                   /\ queried' = Append(queried,
                                        <<request_ixd, list[coll_pos]>>)
                   /\ Abort("search", "HTTPError")
                   /\ UNCHANGED <<request_ixd, coll_pos, dfs, found_rows>>
                \/ \E answer \in CatalogueAnswers :
                     LET df == drop_duplicate_files(answer)
                     IN  /\ any_catalogue' = TRUE
                         /\ queried' = Append(queried,
                                              <<request_ixd, list[coll_pos]>>)
                         /\ found_rows' =
                                found_rows \cup
                                {[answer[i] EXCEPT !.idx = 0] :
                                    i \in DOMAIN answer}
                         /\ NoAbort
                         /\ IF Len(df) > 0
                            THEN /\ dfs' = Append(dfs, df)
                                 /\ coll_pos' = coll_pos + 1
                                 /\ UNCHANGED <<m_pc, request_ixd>>
                            ELSE /\ coll_pos' = coll_pos + 1
                                 /\ UNCHANGED <<m_pc, request_ixd, dfs>>
    /\ UNCHANGED <<args, selected_index, type_version_tuples, queryparams,
                   orbit_frame_tuple_list, complete_orbits,
                   incomplete_orbits_frame_map, planned_requests,
                   selected_collections, found_files, dataframe,
                   download_started>>
    /\ UNCHANGED dlVars
    /\ UNCHANGED frVars
QueryCollection ==
    /\ m_pc = "collection"
    /\ LET list == planned_requests[request_ixd].collection_identifier_list
       IN  IF coll_pos > Len(list)
           THEN /\ request_ixd' = request_ixd + 1
                /\ m_pc' = "search"
                /\ NoAbort
                /\ UNCHANGED <<coll_pos, dfs, any_catalogue, queried,
                               found_rows>>
           ELSE \/ \* get_url_of_collection_items() raises: continue
                   /\ any_catalogue' = TRUE
                   /\ coll_pos' = coll_pos + 1
                   /\ NoAbort
                   /\ UNCHANGED <<m_pc, request_ixd, dfs, queried,
                                  found_rows>>
                \/ \* get_product_list_json() raises
                   /\ any_catalogue' = TRUE
                   /\ queried' = Append(queried,
                                        <<request_ixd, list[coll_pos]>>)
                   /\ Abort("search", "HTTPError")
                   /\ UNCHANGED <<request_ixd, coll_pos, dfs, found_rows>>
                \/ \E answer \in CatalogueAnswers :
                     LET df == drop_duplicate_files(answer)
                     IN  /\ any_catalogue' = TRUE
                         /\ queried' = Append(queried,
                                              <<request_ixd, list[coll_pos]>>)
                         /\ found_rows' =
                                found_rows \cup
                                {[answer[i] EXCEPT !.idx = 0] :
                                    i \in DOMAIN answer}
                         /\ NoAbort
                         /\ IF Len(df) > 0
                            THEN /\ dfs' = Append(dfs, df)
                                 /\ request_ixd' = request_ixd + 1
                                 /\ m_pc' = "search"
                                 /\ UNCHANGED coll_pos
                            ELSE /\ coll_pos' = coll_pos + 1
                                 /\ UNCHANGED <<m_pc, request_ixd, dfs>>
    /\ UNCHANGED <<args, selected_index, type_version_tuples, queryparams,
                   orbit_frame_tuple_list, complete_orbits,
                   incomplete_orbits_frame_map, planned_requests,
                   selected_collections, found_files, dataframe,
                   download_started>>
    /\ UNCHANGED dlVars
    /\ UNCHANGED frVars

\* lines 1712-1751
Select ==
    /\ m_pc = "select"
    /\ LET all == IF Len(dfs) > 0 THEN Concat(dfs) ELSE <<>>
           sorted == sort_values_by_id(drop_duplicate_files(all))
           pick == iloc(sorted, Val(selected_index))
       IN  CASE Len(all) = 0 ->
                  /\ m_pc' = "download_part"
                  /\ dataframe' = <<>>
                  /\ NoAbort
                  /\ UNCHANGED <<selected_index, found_files>>
             [] Len(all) > 0 /\ IsNone(selected_index) ->
                  /\ m_pc' = "download_part"
                  /\ found_files' = sorted
                  /\ dataframe' = sorted
                  /\ NoAbort
                  /\ UNCHANGED selected_index
             [] Len(all) > 0 /\ ~IsNone(selected_index) /\ IsNone(pick) ->
                  /\ Abort("select", "InvalidInputError")
                  /\ dataframe' = sorted
                  /\ UNCHANGED <<selected_index, found_files>>
             [] OTHER ->
                  /\ m_pc' = "download_part"
                  /\ selected_index' = Some(Val(pick).idx)
                  /\ found_files' = sorted
                  /\ dataframe' = <<Val(iloc(sorted, Val(pick).idx))>>
                  /\ NoAbort
    /\ UNCHANGED <<args, type_version_tuples, queryparams,
                   orbit_frame_tuple_list, complete_orbits,
                   incomplete_orbits_frame_map, planned_requests,
                   selected_collections, request_ixd, coll_pos, dfs,
                   any_catalogue, queried, download_started>>
    /\ UNCHANGED found_rows
    /\ UNCHANGED dlVars
    /\ UNCHANGED frVars

\* lines 1758-1778: download() is called, its first statement is the login
\* request of the first server
CallDownload ==
    /\ m_pc = "download_part"
    /\ m_pc' = "done"
    /\ download_started' = (args.is_download /\ Len(dataframe) > 0)
    /\ UNCHANGED <<args, m_error, raised_in, selected_index,
                   type_version_tuples, queryparams, orbit_frame_tuple_list,
                   complete_orbits, incomplete_orbits_frame_map,
                   planned_requests, selected_collections, request_ixd,
                   coll_pos, dfs, found_files, dataframe, any_catalogue,
                   queried>>
    /\ UNCHANGED found_rows
    /\ UNCHANGED dlVars
    /\ UNCHANGED frVars

(***************************************************************************)
(* The parameters of main(), as get_parsed_arguments() returns them        *)
(***************************************************************************)
\* a product name without baseline, and two different products
OneProduct == <<[spelling |-> "anom", baseline |-> None]>>
TwoProducts == <<[spelling |-> "anom", baseline |-> None],
                 [spelling |-> "aebd", baseline |-> Some("AC")]>>

\* no option given: every optional parameter is None (lines 246-335)
DefaultArgs ==
    [product_types |-> OneProduct, timestamps |-> None, frame_ids |-> None,
     orbit_numbers |-> None, orbit_and_frames |-> None, start_time |-> None,
     end_time |-> None, radius_search |-> None, bounding_box |-> None,
     is_download |-> TRUE, product_version |-> None, download_idx |-> None,
     start_orbit_number |-> None, end_orbit_number |-> None,
     start_orbit_and_frame |-> None, end_orbit_and_frame |-> None]

\* lengths of the orbit range given with -so 1 -eo n
OrbitCounts ==
    {n \in 0..MaxOrbits :
        \/ n % MAX_NUM_ORBITS_PER_REQUEST
               \in {0, 1, 20, MAX_NUM_ORBITS_PER_REQUEST - 1}
        \/ n = MaxOrbits}

\* -so/-eo ranges, with and without frame letters
OrbitRangeInputs ==
    {[DefaultArgs EXCEPT !.product_types = TwoProducts,
                         !.start_orbit_number = Some(1),
                         !.end_orbit_number = Some(n),
                         !.frame_ids = f] :
        n \in OrbitCounts,
        f \in {None, Some(<<"A">>), Some(<<"a", "C">>)}}

\* -soaf/-eoaf ranges, with and without -oaf names
TokenRangeInputs ==
    {[DefaultArgs EXCEPT
         !.start_orbit_and_frame = Some(format_orbit_and_frame(so, sf)),
         !.end_orbit_and_frame = Some(format_orbit_and_frame(eo, ef)),
         !.orbit_and_frames = l] :
        so \in 10..12, eo \in 10..12,
        sf \in Range(FRAMES), ef \in Range(FRAMES),
        l \in {None, Some(<<format_orbit_and_frame(12, "C")>>)}}

\* time, timestamp, frame and spatial options
FilterInputs ==
    {[DefaultArgs EXCEPT !.start_time = t[1], !.end_time = t[2],
                         !.timestamps = ts, !.frame_ids = f,
                         !.orbit_numbers = o,
                         !.radius_search = g[1], !.bounding_box = g[2],
                         !.product_version = pv] :
        t \in {<<None, None>>, <<Some(2), None>>, <<None, Some(4)>>,
               <<Some(2), Some(4)>>},
        ts \in {None, Some(<<3>>), Some(<<3, 4>>)},
        f \in {None, Some(<<>>), Some(<<"A">>), Some(<<"A", "C">>)},
        o \in {None, Some(<<5>>), Some(<<100000>>)},
        g \in {<<None, None>>,
               <<Some(<<<<"2", "5">>, <<"5", "1">>, <<"1", "2">>>>), None>>,
               <<None, Some(<<<<"1", "4">>, <<"3", "7">>, <<"1", "5">>,
                              <<"3", "8">>>>)>>,
               <<None, Some(<<<<"1", ".">>, <<"3", "7">>, <<"1", "5">>,
                              <<"3", "8">>>>)>>},
        pv \in {None, Some("AB")}}

PlanInputs == OrbitRangeInputs \cup TokenRangeInputs \cup FilterInputs

\* valid and invalid options of every kind, up to three planned requests
MainInputs ==
    {[DefaultArgs EXCEPT !.download_idx = i[1], !.is_download = i[2],
                         !.product_types = p,
                         !.start_orbit_and_frame = r[1],
                         !.end_orbit_and_frame = r[2],
                         !.orbit_and_frames = l,
                         !.start_orbit_number = o[1],
                         !.end_orbit_number = o[2],
                         !.orbit_numbers = o[3],
                         !.frame_ids = f,
                         !.start_time = t[1], !.end_time = t[2],
                         !.timestamps = t[3]] :
        i \in {<<None, TRUE>>, <<None, FALSE>>, <<Some(0), TRUE>>,
               <<Some(1), TRUE>>, <<Some(3), TRUE>>, <<Some(-1), TRUE>>,
               <<Some(-3), TRUE>>},
        p \in {OneProduct,
               <<[spelling |-> "anom", baseline |-> Some("AC")]>>,
               <<[spelling |-> "xyz", baseline |-> None]>>,
               <<[spelling |-> "anom", baseline |-> Some("A1")]>>},
        r \in {<<None, None>>,
               <<Some(format_orbit_and_frame(10, "H")),
                 Some(format_orbit_and_frame(11, "A"))>>,
               <<Some(format_orbit_and_frame(10, "H")), None>>,
               <<None, Some(format_orbit_and_frame(11, "A"))>>},
        l \in {None, Some(<<format_orbit_and_frame(10, "H")>>),
               Some(<<<<"0", "0", "0", "1", "0", "Z">>>>)},
        o \in {<<None, None, None>>, <<Some(5), Some(6), None>>,
               <<None, None, Some(<<5>>)>>, <<Some(5), None, None>>,
               <<None, None, Some(<<100000>>)>>},
        f \in {None, Some(<<"A">>), Some(<<"Z">>)},
        t \in {<<None, None, None>>, <<Some(2), Some(4), None>>,
               <<Some(2), None, Some(<<1>>)>>}}

\* download() is not running
DownloadIdle == DownloadStart([i \in Rows |-> 1], FALSE, TRUE, TRUE)

InitPlan == (\E a \in PlanInputs : MainStart(a)) /\ DownloadIdle /\ FrameRangeIdle

NextPlan ==
    \/ ValidateInputs
    \/ ConvertInputs
    \/ PlanRequests

SpecPlan == InitPlan /\ [][NextPlan]_vars

InitMain == (\E a \in MainInputs : MainStart(a)) /\ DownloadIdle /\ FrameRangeIdle

NextMain ==
    \/ ValidateInputs
    \/ ConvertInputs
    \/ PlanRequests
    \/ ReadConfig
    \/ RequestTop
    \/ QueryCollection
    \/ Select
    \/ CallDownload

SpecMain == InitMain /\ [][NextMain]_vars

(***************************************************************************)
(* get_frame_range() on its own                                            *)
(***************************************************************************)
InitFrameRange ==
    /\ start_frame_id \in Range(FRAMES)
    /\ end_frame_id \in Range(FRAMES)
    /\ frame_id_range = None
    /\ MainStart(<<>>)
    /\ DownloadIdle

\* the call get_frame_range(start_frame_id, end_frame_id)
CallFrameRange ==
    /\ IsNone(frame_id_range)
    /\ frame_id_range' = Some(get_frame_range(start_frame_id, end_frame_id))
    /\ UNCHANGED <<start_frame_id, end_frame_id>>
    /\ UNCHANGED dlVars
    /\ UNCHANGED mainVars

NextFrameRange == CallFrameRange

SpecFrameRange == InitFrameRange /\ [][NextFrameRange]_vars

(***************************************************************************)
(* Properties of download()                                                *)
(***************************************************************************)
\* the retry loop of the current row is over
LoopOver == cur # 0 /\ result[cur] # "none"

\* C1: a row whose download request answered 403 on attempt 1 gets exactly
\* one download request and is not marked successful.
C1_Forbidden403IsNotRetried ==
    e403_attempt = 1 => (reqs = 1 /\ (cur # 0 => result[cur] # "success"))

\* C2 as stated: a run without overwrite over rows that all have archive and
\* extracted directory issues no network request and no extractor call.
C2_NoNetworkRequestAtAll ==
    (pc = "returned" /\ ~is_overwrite /\ start_both)
        => (n_login = 0 /\ ~any_download /\ ~any_unzip)

\* C2 amended: a run without overwrite over rows that all have archive and
\* extracted directory issues no download request and no extractor call
\* (the login and logout requests of every server group are still issued).
C2_NoDownloadNoExtractWhenBothExist ==
    (~is_overwrite /\ start_both)
        => (~any_download /\ ~any_unzip /\ download_counter = 0
            /\ unzip_counter = 0)

C2_Witness ==
    /\ pc = "returned"
    /\ ~is_overwrite
    /\ start_both
    /\ \A i \in Rows : result[i] = "success"
    /\ n_login = 5 * Cardinality(logged_in)
    /\ Cardinality(logged_in) = NumServers

\* C3: once a row has exhausted its attempts the run is not aborted (it can
\* only end early through a failed login or network call).
C3_ExhaustedRowDoesNotAbortRun ==
    (pc = "aborted" /\ \E i \in Rows : result[i] = "failed")
        => error \in {"RequestException", "BadResponseError"}

\* C4: an attempt whose download raised a transport error other than 403,
\* with attempts left, does not end with success.
C4_TransportErrorIsRetried ==
    (pc = "attempt_end" /\ dl_outcome \in {"err_pre", "err_mid"}
        /\ range_pos < MAX_DOWNLOAD_ATTEMPTS_PER_FILE)
        => ~success

\* C5: at most 3 download requests and at most 3 extractor invocations are
\* made for one row.
C5_AtMostThreeAttempts ==
    reqs <= 3 /\ unz <= 3 /\ range_pos <= 3

C5_Witness ==
    /\ reqs = 3
    /\ unz = 3
    /\ LoopOver
    /\ result[cur] = "failed"

\* C6 as stated: a BadResponse of one server group leaves the run going
\* while server groups remain.
C6_RemainingGroupsStillServed ==
    (error = "BadResponseError" /\ NextGroup(grp) # 0) => pc # "aborted"

\* C6 amended: a BadResponse is not retried and ends the whole run: the
\* two login requests of that group are the last requests, no row of that
\* group or of a later group is attempted and no later group is logged into.
C6_BadResponseEndsRun ==
    error = "BadResponseError"
        => /\ pc = "aborted"
           /\ n_login = 5 * Cardinality(logged_in) + 2
           /\ \A s \in Servers : s >= grp => s \notin logged_in
           /\ \A i \in Rows : server[i] >= grp => result[i] = "none"

C6_Witness ==
    /\ error = "BadResponseError"
    /\ NextGroup(grp) # 0

(***************************************************************************)
(* Properties of main()                                                    *)
(***************************************************************************)
\* C7: a start or end orbit-and-frame range given together with an orbit
\* list, a start or end orbit number or frame letters is rejected by the
\* validation of main() with InvalidInputError, before any catalogue query
\* and before download() is called; a range given with only a list of
\* orbit-and-frame names passes that validation.
C7_RangeWithSeparateSelectorsRejected ==
    LET range_given == \/ ~IsNone(args.start_orbit_and_frame)
                       \/ ~IsNone(args.end_orbit_and_frame)
        separate_given == \/ ~IsNone(args.orbit_numbers)
                          \/ ~IsNone(args.start_orbit_number)
                          \/ ~IsNone(args.end_orbit_number)
                          \/ ~IsNone(args.frame_ids)
    IN  /\ (range_given /\ separate_given /\ m_pc # "validate")
              => /\ m_pc = "aborted"
                 /\ m_error = "InvalidInputError"
                 /\ raised_in = "validate"
                 /\ ~any_catalogue
                 /\ ~download_started
        /\ (range_given /\ ~separate_given /\ ~IsNone(args.orbit_and_frames)
            /\ args.download_idx # Some(0) /\ m_pc # "validate")
              => raised_in # "validate"

C7_Witness ==
    /\ ~IsNone(args.start_orbit_and_frame)
    /\ ~IsNone(args.end_orbit_and_frame)
    /\ ~IsNone(args.orbit_numbers)
    /\ IsNone(args.frame_ids)
    /\ IsNone(args.start_orbit_number)
    /\ args.download_idx = None
    /\ m_error = "InvalidInputError"
    /\ raised_in = "validate"
    /\ ~any_catalogue

\* C8 as stated: whenever the run ends with InvalidInputError, no catalogue
\* query was made and download() was not called.
C8_InvalidInputBeforeAnyNetworkCall ==
    m_error = "InvalidInputError" => (~any_catalogue /\ ~download_started)

\* C8 amended: an exception raised while validating, converting or planning
\* ends the run before any catalogue query and before download() is called;
\* a result index 0 is rejected by the validation; InvalidInputError is
\* raised after catalogue queries only for a result index beyond the bounds
\* of the list of found files, and then before download() is called.
C8_InvalidInputBeforeNetworkExceptIndexBounds ==
    /\ raised_in \in {"validate", "convert", "plan"}
          => (~any_catalogue /\ ~download_started)
    /\ (args.download_idx = Some(0) /\ m_pc # "validate")
          => (m_error = "InvalidInputError" /\ raised_in = "validate")
    /\ m_error = "InvalidInputError"
          => /\ ~download_started
             /\ raised_in \in {"validate", "convert", "plan", "select"}
             /\ raised_in = "select"
                   => /\ any_catalogue
                      /\ ~IsNone(selected_index)
                      /\ IsNone(iloc(dataframe, Val(selected_index)))

C8_Witness ==
    /\ m_error = "InvalidInputError"
    /\ raised_in = "select"
    /\ args.download_idx = Some(3)
    /\ Len(dataframe) = 2
    /\ any_catalogue
    /\ ~download_started

\* C9: once the requests are planned, for every (type, version) pair the
\* requests carrying the complete orbits, and the requests carrying the
\* orbits of one frame letter of the incomplete map, are ceil(n/50) many for
\* a list of n orbits, carry at most 50 orbits each and concatenate to the
\* list; 120 orbits give requests of 50, 50 and 20 orbits.
C9_OrbitListsAreChunkedByFifty ==
    LET Version(tv) == IF tv[2] = "latest" THEN None ELSE Some(tv[2])
        RequestsOf(tv, frame) ==
            SelectSeq(planned_requests,
                      LAMBDA r : /\ r.product_type = tv[1]
                                 /\ r.product_version = Version(tv)
                                 /\ r.frame_id = frame
                                 /\ ~IsNone(r.orbit_number))
        Sizes(rs) == [k \in DOMAIN rs |-> Len(Val(rs[k].orbit_number))]
        Chunked(rs, lst) ==
            /\ Len(rs) * 50 >= Len(lst)
            /\ (Len(rs) - 1) * 50 < Len(lst) \/ (Len(rs) = 0 /\ lst = <<>>)
            /\ \A k \in DOMAIN rs : Sizes(rs)[k] <= 50
            /\ FlattenSeq([k \in DOMAIN rs |-> Val(rs[k].orbit_number)]) = lst
            /\ Len(lst) = 120 => Sizes(rs) = <<50, 50, 20>>
    IN  (m_pc = "config" /\ m_error = "none")
        => \A i \in DOMAIN type_version_tuples :
              /\ ~IsNone(complete_orbits)
                    => Chunked(RequestsOf(type_version_tuples[i], None),
                               Val(complete_orbits))
              /\ ~IsNone(incomplete_orbits_frame_map)
                    => \A k \in DOMAIN Val(incomplete_orbits_frame_map) :
                          Chunked(RequestsOf(
                                    type_version_tuples[i],
                                    Some(Val(incomplete_orbits_frame_map)[k][1])),
                                  Val(incomplete_orbits_frame_map)[k][2])

C9_Witness ==
    /\ m_pc = "config"
    /\ Len(type_version_tuples) = 2
    /\ ~IsNone(complete_orbits)
    /\ Len(Val(complete_orbits)) = 120
    /\ Len(planned_requests) = 6
    /\ [k \in 1..6 |-> Len(Val(planned_requests[k].orbit_number))]
           = <<50, 50, 20, 50, 50, 20>>

\* C10: after the conversion of a start and an end orbit-and-frame name of
\* the same orbit (no other selector given), the list of pairs is
\* (orbit, f) for every f of the frame range from the start letter to the
\* end letter.
C10_SameOrbitRangeGivesFrameRange ==
    LET s == get_validated_orbit_and_frame(Val(args.start_orbit_and_frame))
        e == get_validated_orbit_and_frame(Val(args.end_orbit_and_frame))
        letters == get_frame_range(s.val[2], e.val[2])
    IN  (/\ m_pc \in {"plan", "config"}
         /\ ~IsNone(args.start_orbit_and_frame)
         /\ ~IsNone(args.end_orbit_and_frame)
         /\ IsNone(args.orbit_and_frames)
         /\ s.val[1] = e.val[1])
        => orbit_frame_tuple_list
              = Some([k \in DOMAIN letters |-> <<s.val[1], letters[k]>>])

\* C11: after the conversion of a start and an end orbit-and-frame name
\* with start orbit < end orbit (no other selector given), the list of
\* pairs holds, each once, the frames from the start letter to H of the
\* start orbit, the frames from A to the end letter of the end orbit and
\* all 8 frames of every orbit between; 00010F..00012C gives 14 pairs.
C11_RangeOverSeveralOrbits ==
    LET s == get_validated_orbit_and_frame(Val(args.start_orbit_and_frame))
        e == get_validated_orbit_and_frame(Val(args.end_orbit_and_frame))
        Letter(i) == FRAMES[i]
        Pos(f) == CHOOSE i \in 1..8 : Letter(i) = f
        expected ==
            {<<s.val[1], Letter(i)>> : i \in Pos(s.val[2])..8}
            \cup {<<e.val[1], Letter(i)>> : i \in 1..Pos(e.val[2])}
            \cup {<<o, Letter(i)>> :
                     o \in (s.val[1] + 1)..(e.val[1] - 1), i \in 1..8}
        pairs == Val(orbit_frame_tuple_list)
    IN  (/\ m_pc \in {"plan", "config"}
         /\ ~IsNone(args.start_orbit_and_frame)
         /\ ~IsNone(args.end_orbit_and_frame)
         /\ IsNone(args.orbit_and_frames)
         /\ s.val[1] < e.val[1])
        => /\ ~IsNone(orbit_frame_tuple_list)
           /\ Range(pairs) = expected
           /\ Len(pairs) = Cardinality(expected)
           /\ (s.val = <<10, "F">> /\ e.val = <<12, "C">>)
                 => /\ Len(pairs) = 14
                    /\ Range(pairs) =
                          {<<10, "F">>, <<10, "G">>, <<10, "H">>,
                           <<12, "A">>, <<12, "B">>, <<12, "C">>}
                          \cup {<<11, Letter(i)>> : i \in 1..8}

C11_Witness ==
    /\ m_pc = "plan"
    /\ args.start_orbit_and_frame = Some(<<"0", "0", "0", "1", "0", "F">>)
    /\ args.end_orbit_and_frame = Some(<<"0", "0", "0", "1", "2", "C">>)
    /\ IsNone(args.orbit_and_frames)
    /\ ~IsNone(orbit_frame_tuple_list)
    /\ Len(Val(orbit_frame_tuple_list)) = 14

\* C12: get_frame_range(s, e) returns the letters from s to e inclusive in
\* the cyclic order A..H, A.., for all letters s and e; F to C is
\* F, G, H, A, B, C and A to D is A, B, C, D.
C12_FrameRangeIsCyclic ==
    LET a == CHOOSE i \in 1..8 : FRAMES[i] = start_frame_id
        b == CHOOSE i \in 1..8 : FRAMES[i] = end_frame_id
        n == ((b - a + 8) % 8) + 1
        traversed == [k \in 1..n |-> FRAMES[((a + k - 2) % 8) + 1]]
    IN  ~IsNone(frame_id_range)
        => /\ Val(frame_id_range) = traversed
           /\ (start_frame_id = "F" /\ end_frame_id = "C")
                 => Val(frame_id_range) = <<"F", "G", "H", "A", "B", "C">>
           /\ (start_frame_id = "A" /\ end_frame_id = "D")
                 => Val(frame_id_range) = <<"A", "B", "C", "D">>

C12_Witness ==
    /\ start_frame_id = "F"
    /\ end_frame_id = "C"
    /\ frame_id_range = Some(<<"F", "G", "H", "A", "B", "C">>)

C14_PartitionIsExclusiveAndTotal ==
    LET pairs == Val(orbit_frame_tuple_list)
        complete == Range(Val(complete_orbits))
        map == Val(incomplete_orbits_frame_map)
        Under(f) == UNION {Range(map[k][2]) : k \in {j \in DOMAIN map :
                                                      map[j][1] = f}}
        mapped == UNION {Range(map[k][2]) : k \in DOMAIN map}
    IN  (m_pc \in {"plan", "config"} /\ ~IsNone(orbit_frame_tuple_list))
        => /\ ~IsNone(complete_orbits)
           /\ ~IsNone(incomplete_orbits_frame_map)
           /\ complete \cap mapped = {}
           /\ complete \cup mapped = {pairs[i][1] : i \in DOMAIN pairs}
           /\ \A i \in DOMAIN pairs :
                 pairs[i][1] \notin complete
                    => pairs[i][1] \in Under(pairs[i][2])

C14_Witness ==
    /\ m_pc = "plan"
    /\ ~IsNone(orbit_frame_tuple_list)
    /\ Len(Val(orbit_frame_tuple_list)) = 14
    /\ complete_orbits = Some(<<11>>)
    /\ Len(Val(incomplete_orbits_frame_map)) = 6

\* C15: every server of the dataframe is logged in to at most once, by the
\* three login requests in their order, and is logged out of by two requests
\* before the next server is logged in to; a download request is issued only
\* for a file of the server whose redirect POST succeeded last, with the
\* cookies of that login, after the three login requests and before the two
\* logout requests of that server; a run that returns has logged in to and
\* out of every server of the dataframe exactly once.
C15_OneLoginPerServerInOrder ==
    LET groups == {s \in Servers : GroupRows(s) # {}}
        over   == pc \in {"return", "returned"}
        before == IF over THEN groups ELSE {s \in groups : s < grp}
        sofar  == IF over THEN groups ELSE {s \in groups : s <= grp}
        done   == 5 * Cardinality(before)
    IN  /\ logged_in \subseteq sofar
        /\ n_login >= done
        /\ n_login <= 5 * Cardinality(sofar)
        /\ pc = "login_get" => n_login = done /\ grp \notin logged_in
        /\ pc = "login_idp" => n_login = done + 1 /\ grp \notin logged_in
        /\ pc = "login_saml" => n_login = done + 2 /\ grp \notin logged_in
        /\ pc = "download"
              => /\ server[cur] = grp
                 /\ grp \in logged_in
                 /\ saml_response_cookies = grp
                 /\ n_login = done + 3
        /\ pc = "logout_oads" => n_login = done + 3 /\ NextRow(grp, cur) = 0
        /\ pc = "logout_idp" => n_login = done + 4
        /\ pc = "returned" => logged_in = groups /\ n_login = done

C15_Witness ==
    /\ pc = "download"
    /\ grp = 2
    /\ server[cur] = 2
    /\ logged_in = {1, 2}
    /\ n_login = 8

\* C16: once the requests are planned for arguments without timestamps,
\* without any orbit or orbit-and-frame selector and without frame letters,
\* there is exactly one request per (type, version) pair, in the order of
\* the pairs; it has no orbit and no frame filter and carries the spatial
\* filters and the time filters that were given (none included).
C16_OneUnconstrainedRequestPerPair ==
    (/\ m_pc = "config"
     /\ m_error = "none"
     /\ IsNone(args.timestamps)
     /\ IsNone(args.frame_ids)
     /\ IsNone(args.orbit_numbers)
     /\ IsNone(args.start_orbit_number)
     /\ IsNone(args.end_orbit_number)
     /\ IsNone(args.orbit_and_frames)
     /\ IsNone(args.start_orbit_and_frame)
     /\ IsNone(args.end_orbit_and_frame))
    => /\ Len(planned_requests) = Len(type_version_tuples)
       /\ \A i \in DOMAIN planned_requests :
             LET r == planned_requests[i]
             IN  /\ r.product_type = type_version_tuples[i][1]
                 /\ IsNone(r.orbit_number)
                 /\ IsNone(r.frame_id)
                 /\ r.radius = queryparams.geo.radius
                 /\ r.lat = queryparams.geo.lat
                 /\ r.lon = queryparams.geo.lon
                 /\ r.bbox = queryparams.geo.bbox
                 /\ ~IsNone(queryparams.start_time)
                       => r.start_time = queryparams.start_time
                 /\ ~IsNone(queryparams.end_time)
                       => r.end_time = queryparams.end_time

\* C17: once the requests are planned for arguments with frame letters and
\* without any orbit or orbit-and-frame selector, every (type, version) pair
\* has one request without orbit filter per given frame letter, in the order
\* of the letters, each with that letter as frame filter.
C17_OneRequestPerFrameLetter ==
    LET letters == Val(args.frame_ids)
        PerFrame(tv) ==
            SelectSeq(planned_requests,
                      LAMBDA r : /\ r.product_type = tv[1]
                                 /\ IsNone(r.orbit_number)
                                 /\ ~IsNone(r.frame_id))
    IN  (/\ m_pc = "config"
         /\ m_error = "none"
         /\ ~IsNone(args.frame_ids)
         /\ IsNone(args.orbit_numbers)
         /\ IsNone(args.start_orbit_number)
         /\ IsNone(args.end_orbit_number)
         /\ IsNone(args.orbit_and_frames)
         /\ IsNone(args.start_orbit_and_frame)
         /\ IsNone(args.end_orbit_and_frame))
        => \A i \in DOMAIN type_version_tuples :
              [k \in DOMAIN PerFrame(type_version_tuples[i]) |->
                  Val(PerFrame(type_version_tuples[i])[k].frame_id)]
                 = letters

\* C18: after the partition of the list of (orbit, frame) pairs that the
\* selectors gave, an orbit of the list is in the list of complete orbits
\* if and only if the list holds a pair of that orbit for every one of the
\* letters A..H.
C18_CompleteIffAllEightLetters ==
    LET pairs == Val(orbit_frame_tuple_list)
        LettersOf(o) == {pairs[i][2] : i \in {j \in DOMAIN pairs :
                                                 pairs[j][1] = o}}
    IN  (m_pc \in {"plan", "config"} /\ ~IsNone(orbit_frame_tuple_list))
        => \A i \in DOMAIN pairs :
              (pairs[i][1] \in Range(Val(complete_orbits)))
                 <=> (LettersOf(pairs[i][1]) = Range(FRAMES))

\* C19: the step at the top of an attempt sets try_download to
\* "overwrite, or archive and extracted output both absent" and try_unzip to
\* "unzip requested, and overwrite or extracted output absent", for what is
\* on disk at that step; a step issues a download request only while
\* try_download holds and calls the extractor only while try_unzip holds.
C19_DecisionsAreFreshAndGateTheWork ==
    [][/\ pc = "attempt_top"
          => /\ try_download' = (is_overwrite \/ (zip_file = "absent"
                                                  /\ file_dir = "absent"))
             /\ try_unzip' = (is_unzip /\ (is_overwrite
                                           \/ file_dir = "absent"))
       /\ pc' = "download" => try_download'
       /\ pc' = "unzip" => try_unzip'
       /\ reqs' > reqs => try_download /\ try_download'
       /\ unz' > unz => try_unzip /\ try_unzip']_vars

\* the second attempt of a row decides otherwise than the first one did,
\* because the first one left a directory behind
C19_Witness ==
    /\ LoopOver
    /\ range_pos = 2
    /\ reqs = 1
    /\ unz = 1
    /\ ~is_overwrite
    /\ file_dir = "partial"
    /\ ~try_download
    /\ ~try_unzip

\* C20: the step at the top of an attempt of a run with delete_after_unzip
\* that finds both the archive and the extracted output of the row on disk
\* leaves no archive behind, whatever the overwrite flag is.
C20_StaleArchiveIsDeleted ==
    [][(/\ pc = "attempt_top"
        /\ is_delete
        /\ zip_file # "absent"
        /\ file_dir # "absent")
       => zip_file' = "absent"]_vars

\* C21 as stated: an attempt whose download request succeeded and whose
\* extraction failed (the extracted output is not complete after the
\* extractor ran) does not end with success and, with attempts left, is
\* followed by a next attempt; the top of that next attempt decides against
\* a download and goes to the extractor.
C21_FailedExtractionRetriesWithoutDownload ==
    [][LET extraction_failed_after_download ==
               /\ dl_outcome \in {"ok_len", "ok_nolen"}
               /\ try_unzip
               /\ unz >= 1
               /\ file_dir # "full"
       IN  /\ (pc = "attempt_end" /\ extraction_failed_after_download)
              => /\ ~success
                 /\ range_pos < MAX_DOWNLOAD_ATTEMPTS_PER_FILE
                       => pc' = "attempt_top"
           /\ (pc = "attempt_top" /\ range_pos >= 1
                                  /\ extraction_failed_after_download)
              => /\ ~try_download'
                 /\ pc' = "unzip"]_vars

\* C21 amended: an attempt whose download request succeeded and whose
\* extraction failed does not end with success and, with attempts left, is
\* followed by a next attempt; the failed extraction has removed the
\* archive, so the next attempt never goes to the extractor without a
\* download: it issues the download request again when no extracted output
\* is on disk, and without overwrite it skips both steps when the failed
\* extraction left output behind.
C21_FailedExtractionRetriesFromDiskState ==
    [][LET extraction_failed_after_download ==
               /\ dl_outcome \in {"ok_len", "ok_nolen"}
               /\ try_unzip
               /\ unz >= 1
               /\ file_dir # "full"
       IN  /\ (pc = "attempt_end" /\ extraction_failed_after_download)
              => /\ ~success
                 /\ range_pos < MAX_DOWNLOAD_ATTEMPTS_PER_FILE
                       => pc' = "attempt_top"
           /\ (pc = "attempt_top" /\ range_pos >= 1
                                  /\ extraction_failed_after_download)
              => /\ zip_file = "absent"
                 /\ pc' # "unzip"
                 /\ file_dir = "absent"
                       => try_download' /\ pc' = "download"
                 /\ (file_dir # "absent" /\ ~is_overwrite)
                       => /\ ~try_download'
                          /\ ~try_unzip'
                          /\ pc' = "row_top"]_vars

\* the second attempt of a row is about to start after the first one
\* downloaded the archive and failed to extract it
C21_Witness ==
    /\ pc = "attempt_top"
    /\ range_pos = 1
    /\ dl_outcome \in {"ok_len", "ok_nolen"}
    /\ try_unzip
    /\ unz = 1
    /\ reqs = 1
    /\ ~is_delete
    /\ zip_file = "absent"
    /\ file_dir = "absent"

\* C22 as stated: a step in which the extractor is invoked on an existing
\* archive and the extraction fails (no complete extracted output
\* afterwards) leaves the archive in place when delete_after_unzip is false
\* and removes it when delete_after_unzip is true.
C22_DeleteOnErrorFollowsDeleteAfterUnzip ==
    [][(/\ pc = "unzip"
        /\ zip_file # "absent"
        /\ file_dir' # "full")
       => (zip_file' = "absent") = is_delete]_vars

\* C22 amended: a step in which the extractor is invoked on an existing
\* archive and the extraction fails removes the archive, whatever
\* delete_after_unzip is; a step in which the extraction succeeds removes
\* the archive exactly when delete_after_unzip is true.
C22_FailedExtractionAlwaysDeletesArchive ==
    [][(pc = "unzip" /\ zip_file # "absent")
       => /\ file_dir' # "full" => zip_file' = "absent"
          /\ file_dir' = "full" => (zip_file' = "absent") = is_delete]_vars

\* an attempt without delete_after_unzip has downloaded the archive and
\* lost it to a failed extraction
C22_Witness ==
    /\ pc = "attempt_end"
    /\ ~is_delete
    /\ dl_outcome \in {"ok_len", "ok_nolen"}
    /\ try_unzip
    /\ unz >= 1
    /\ ~success
    /\ zip_file = "absent"

\* C23: with overwrite set, the step at the top of an attempt leaves neither
\* the archive nor the extracted output of the row on disk and goes on to
\* the download request of that attempt.
C23_OverwriteDeletesBothAndDownloads ==
    [][(pc = "attempt_top" /\ is_overwrite)
       => /\ zip_file' = "absent"
          /\ file_dir' = "absent"
          /\ pc' = "download"]_vars

\* C24: the collection loop of a planned request sends an item search only
\* to a collection that is in the request's candidate list and in the
\* allow-list, and only after the searches it sent to all earlier such
\* collections of that request; a search that returned a result ends the
\* loop of that request; with no candidate in the allow-list the loop sends
\* nothing and the next request follows; a request whose loop has ended is
\* never searched again.
C24_CollectionsInOrderUntilFirstResult ==
    [][/\ request_ixd' >= request_ixd
       /\ m_pc # "collection" => queried' = queried /\ dfs' = dfs
       /\ m_pc = "collection"
          => LET cand == get_applicable_collection_list(
                             planned_requests[request_ixd].product_type)
                 allowed == SelectSeq(cand,
                                LAMBDA c : c \in selected_collections)
                 mine == SelectSeq(queried, LAMBDA q : q[1] = request_ixd)
             IN  /\ allowed = <<>>
                       => /\ queried' = queried
                          /\ request_ixd' = request_ixd + 1
                          /\ m_pc' = "search"
                 /\ queried' # queried
                       => \E k \in DOMAIN allowed :
                             /\ queried' = Append(queried,
                                              <<request_ixd, allowed[k]>>)
                             /\ \A j \in DOMAIN mine :
                                   \E i \in 1..(k - 1) :
                                      allowed[i] = mine[j][2]
                 /\ dfs' # dfs
                       => /\ queried' # queried
                          /\ request_ixd' = request_ixd + 1]_vars

\* the first request found nothing in its first collection and something in
\* its second one; its third collection was not searched
C24_Witness ==
    /\ m_pc = "select"
    /\ Len(planned_requests) = 1
    /\ Len(planned_requests[1].collection_identifier_list) = 3
    /\ Len(queried) = 2
    /\ queried[1] = <<1, planned_requests[1].collection_identifier_list[1]>>
    /\ queried[2] = <<1, planned_requests[1].collection_identifier_list[2]>>
    /\ Len(dfs) = 1

\* C25: once the requests are planned, every request has both start_time
\* and end_time or neither; a request that is not the request of an explicit
\* timestamp carries the start and the end the user gave, the mission start
\* as start when only an end was given, and the current time as end when
\* only a start was given.
C25_TimeIntervalsAreClosed ==
    LET start_given == ~IsNone(queryparams.start_time)
        end_given == ~IsNone(queryparams.end_time)
        ts == IF IsNone(queryparams.timestamps) THEN {}
              ELSE Range(Val(queryparams.timestamps))
        OfTimestamp(r) == /\ r.start_time = r.end_time
                          /\ ~IsNone(r.start_time)
                          /\ Val(r.start_time) \in ts
                          /\ IsNone(r.orbit_number)
                          /\ IsNone(r.frame_id)
    IN  (m_pc = "config" /\ m_error = "none")
        => \A i \in DOMAIN planned_requests :
              LET r == planned_requests[i]
              IN  /\ IsNone(r.start_time) = IsNone(r.end_time)
                  /\ ~OfTimestamp(r)
                        => /\ r.start_time =
                                 (CASE start_given -> queryparams.start_time
                                    [] end_given -> Some(MISSION_START)
                                    [] OTHER -> None)
                           /\ r.end_time =
                                 (CASE end_given -> queryparams.end_time
                                    [] start_given -> Some(NOW)
                                    [] OTHER -> None)

\* the requests of an orbit list were planned from an end time alone
C25_Witness ==
    /\ m_pc = "config"
    /\ m_error = "none"
    /\ IsNone(queryparams.start_time)
    /\ queryparams.end_time = Some(4)
    /\ IsNone(queryparams.timestamps)
    /\ Len(planned_requests) = 1
    /\ planned_requests[1].start_time = Some(MISSION_START)
    /\ planned_requests[1].end_time = Some(4)
    /\ ~IsNone(planned_requests[1].orbit_number)

\* C26: once the requests are planned for arguments with timestamps, the
\* requests of every (type, version) pair that have start_time = end_time
\* and neither orbit nor frame filter are one per given timestamp, in the
\* order given, and none of them has a bounding box, a radius or a point,
\* whatever other selectors were given.
C26_OneBareRequestPerTimestamp ==
    LET ts == Val(queryparams.timestamps)
        Version(tv) == IF tv[2] = "latest" THEN None ELSE Some(tv[2])
        OfTimestamps(tv) ==
            SelectSeq(planned_requests,
                      LAMBDA r : /\ r.product_type = tv[1]
                                 /\ r.product_version = Version(tv)
                                 /\ r.start_time = r.end_time
                                 /\ ~IsNone(r.start_time)
                                 /\ IsNone(r.orbit_number)
                                 /\ IsNone(r.frame_id))
    IN  (/\ m_pc = "config"
         /\ m_error = "none"
         /\ ~IsNone(queryparams.timestamps))
        => \A i \in DOMAIN type_version_tuples :
              LET rs == OfTimestamps(type_version_tuples[i])
              IN  /\ [k \in DOMAIN rs |-> Val(rs[k].start_time)] = ts
                  /\ \A k \in DOMAIN rs :
                        /\ IsNone(rs[k].bbox)
                        /\ IsNone(rs[k].radius)
                        /\ IsNone(rs[k].lat)
                        /\ IsNone(rs[k].lon)

\* C27: after the conversion of the selectors (a start/end range, if given,
\* with start orbit <= end orbit), the set of pairs of the list is the set
\* of selected pairs: every given orbit with every given frame letter (with
\* every letter when none is given), the pair of every orbit-and-frame
\* name, and the pairs of the range: inside one orbit the frame range from
\* the start to the end letter, over several orbits the start letter to H,
\* every letter of the orbits between, and A to the end letter.
C27_PairsAreSoundAndComplete ==
    LET produced == IF IsNone(orbit_frame_tuple_list) THEN {}
                    ELSE Range(Val(orbit_frame_tuple_list))
        letters == IF IsNone(queryparams.frame_ids)
                      \/ Val(queryparams.frame_ids) = <<>>
                   THEN Range(FRAMES)
                   ELSE Range(Val(queryparams.frame_ids))
        from_lists == Range(queryparams.orbit_numbers) \X letters
        names == IF IsNone(args.orbit_and_frames) THEN <<>>
                 ELSE Val(args.orbit_and_frames)
        from_names == {get_validated_orbit_and_frame(names[i]).val :
                          i \in DOMAIN names}
        has_range == ~IsNone(args.start_orbit_and_frame)
        s == get_validated_orbit_and_frame(Val(args.start_orbit_and_frame)).val
        e == get_validated_orbit_and_frame(Val(args.end_orbit_and_frame)).val
        from_range ==
            CASE ~has_range -> {}
              [] s[1] = e[1] ->
                    {<<s[1], f>> : f \in Range(get_frame_range(s[2], e[2]))}
              [] OTHER ->
                    {<<s[1], f>> : f \in Range(get_frame_range(s[2], "H"))}
                    \cup ((s[1] + 1)..(e[1] - 1)) \X Range(FRAMES)
                    \cup {<<e[1], f>> : f \in Range(get_frame_range("A", e[2]))}
    IN  (/\ m_pc \in {"plan", "config"}
         /\ has_range => s[1] <= e[1])
        => produced = from_lists \cup from_names \cup from_range

\* C28: after the selection with a result index k within the bounds of the
\* identifier-sorted list shown to the user (1 <= k <= n, or -n <= k <= -1
\* counting from the end), the rows handed to download() are the single
\* entry at position k of that list.
C28_SelectedRowIsKthOfSortedList ==
    LET k == Val(args.download_idx)
        n == Len(found_files)
    IN  (/\ m_pc \in {"download_part", "done"}
         /\ m_error = "none"
         /\ ~IsNone(args.download_idx)
         /\ n > 0
         /\ (1 <= k /\ k <= n) \/ (0 - n <= k /\ k <= 0 - 1))
        => /\ Len(dataframe) = 1
           /\ dataframe[1].name = found_files[IF k > 0 THEN k
                                              ELSE n + k + 1].name
           /\ dataframe[1].sensing = found_files[IF k > 0 THEN k
                                                 ELSE n + k + 1].sensing
           /\ dataframe[1].processing = found_files[IF k > 0 THEN k
                                                    ELSE n + k + 1].processing

\* C29: when the retry loop of a row has ended with the row marked
\* successful, the extracted output is on disk if unzip was requested, and
\* the archive or the extracted output is on disk if it was not.
C29_SuccessMatchesPolicy ==
    (LoopOver /\ result[cur] = "success")
        => /\ is_unzip => file_dir # "absent"
           /\ ~is_unzip => (zip_file # "absent" \/ file_dir # "absent")

\* a second row ends successful after its download (and its extraction, if
\* requested)
C29_Witness ==
    /\ LoopOver
    /\ result[cur] = "success"
    /\ reqs >= 1
    /\ \/ is_unzip /\ unz >= 1 /\ file_dir = "full"
       \/ ~is_unzip /\ zip_file = "full" /\ file_dir = "absent"
    /\ \E i \in Rows : i # cur /\ result[i] = "success"

\* C30: download_counter never exceeds the number of rows of the dataframe,
\* and when download() returns it is the number of rows whose archive was
\* fetched by a download request of the run.
C30_DownloadCountIsFilesFetched ==
    /\ download_counter <= Cardinality(Rows)
    /\ pc = "returned" => download_counter = Cardinality(fetched)

====
